---- MODULE Spec2Model ----
(***************************************************************************)
(* RedditToTelegram: the polling orchestrator (check_subreddits), the      *)
(* delivery client (send_telegram_message / send_text_message), the        *)
(* failure queue (add_failed_message / retry_failed_messages) and the two  *)
(* entry points that drive them (RedditToTelegramBot.run and               *)
(* RedditTelegramService.run), as one sequential state machine.            *)
(*                                                                         *)
(* Environment assumptions of Spec: writes of the two state files succeed, *)
(* the configuration holds the telegram section, and the process           *)
(* ends only through the code's own exit paths (KeyboardInterrupt or an    *)
(* escaping exception under RedditToTelegramBot.run, the signal handler or *)
(* a failed cycle under RedditTelegramService.run).                        *)
(***************************************************************************)
EXTENDS Integers, Sequences, FiniteSets, TLC

\* ---------------------------------------------------------------- bounds
\* the posts the feeds can return
NumPosts == 2
\* len(config['subreddits'])
NumSubs == 2
\* a media send can fail only while the queue holds fewer records than this
MaxQueue == 2
\* the entries of a post's media_metadata (SpecFunctions)
MaxEntries == 2
\* the pieces of the query string of a URL (SpecFunctions)
MaxUrlLen == 3
\* the identifiers added to a ProcessedSet before it is saved (SpecFunctions)
MaxIds == 3
\* the characters of a post title (SpecFunctions)
MaxTitle == 5
\* the new posts of one listing (max_posts_per_check is 10 by default)
MaxFeed == 6

\* ------------------------------------------------------------- constants
\* retry ceiling of a FailureRecord (reddit_to_telegram.py:175)
MaxRetries == 3
\* the mid-cycle checkpoint period (reddit_to_telegram.py:747)
CheckpointEvery == 5

Posts == 1..NumPosts
Subs == 1..NumSubs

\* ------------------------------------------------------------ post shapes
\* The attributes of a submission that the orchestrator and the delivery
\* client read.  url_ext is the marker found in post.url ("vredd" stands for
\* the v.redd.it host), meta says whether media / media_metadata / preview is
\* populated, meta_img is the extension of the image URL those carry.
ShapeText  == [is_self |-> TRUE,  over_18 |-> FALSE, is_video |-> FALSE,
               meta |-> FALSE, url_ext |-> "none",  meta_img |-> "none"]
ShapeVideo == [is_self |-> FALSE, over_18 |-> FALSE, is_video |-> TRUE,
               meta |-> TRUE,  url_ext |-> "vredd", meta_img |-> "jpg"]
ShapeImage == [is_self |-> FALSE, over_18 |-> FALSE, is_video |-> FALSE,
               meta |-> FALSE, url_ext |-> "jpg",   meta_img |-> "none"]
ShapeNsfwGallery == [is_self |-> TRUE, over_18 |-> TRUE, is_video |-> FALSE,
               meta |-> TRUE,  url_ext |-> "none",  meta_img |-> "jpg"]
ShapeWebp  == [is_self |-> FALSE, over_18 |-> TRUE,  is_video |-> FALSE,
               meta |-> FALSE, url_ext |-> "webp",  meta_img |-> "none"]
Shapes == <<ShapeText, ShapeVideo, ShapeImage, ShapeNsfwGallery, ShapeWebp>>

Post(p) == Shapes[((p - 1) % Len(Shapes)) + 1]

\* the subreddit a post belongs to
SubOf(p) == ((p - 1) % NumSubs) + 1

\* ------------------------------------------------------- media references
None == [kind |-> "none", post |-> 0, ext |-> "none"]
Url(p, e) == [kind |-> "url", post |-> p, ext |-> e]
\* Temporary files are named by their role in the resolution of post p (the
\* names themselves are random).  TempFile(p) is the video file: the file the
\* MP4 is streamed into (line 345), or the file yt-dlp left its output in,
\* which is convert_hls_to_mp4's NamedTemporaryFile (line 366) when the
\* output has the extension mp4.
TempFile(p) == [kind |-> "file", post |-> p, ext |-> "mp4"]
\* convert_hls_to_mp4's NamedTemporaryFile (line 366), still empty because
\* yt-dlp wrote nothing or wrote its output under another extension
Placeholder(p) == [kind |-> "file", post |-> p, ext |-> "empty"]

\* post.url
PostUrl(p) == Url(p, Post(p).url_ext)

\* ------------------------------------------------------------ pure helpers
\* has_media_content: is_video, or media_metadata / media / preview present,
\* or a non-self post whose URL carries a media extension or a video host
MediaExts == {"jpg", "jpeg", "png", "gif", "webp", "mp4", "webm", "mov", "vredd"}
post_has_media(post) ==
    \/ post.is_video
    \/ post.meta
    \/ (~post.is_self /\ post.url_ext \in MediaExts)
has_media_content(p) == post_has_media(Post(p))

\* the extensions download_reddit_image accepts in post.url (method 2)
ImageExts == {"jpg", "jpeg", "png", "gif", "webp"}
\* the extensions send_telegram_message sends as a photo
PhotoExts == {"jpg", "jpeg", "png", "gif"}

\* download_reddit_image: media_metadata / preview first, then the direct URL
image_ext(post) ==
    IF post.meta /\ post.meta_img # "none" THEN post.meta_img
    ELSE IF ~post.is_self /\ post.url_ext \in ImageExts THEN post.url_ext
    ELSE "none"
download_reddit_image(p) ==
    IF image_ext(Post(p)) = "none" THEN None ELSE Url(p, image_ext(Post(p)))

\* download_reddit_video lines 280-327: the kinds of video URL the selection
\* can find for the post: none without a video; with one, a direct MP4 URL or
\* a HLSPlaylist.m3u8 / DASHPlaylist.mpd stream URL
VideoUrls(p) == IF Post(p).is_video THEN {"mp4", "playlist"} ELSE {"none"}

\* download_reddit_video line 335
NeedsTranscode_Never(u) == FALSE
NeedsTranscode(u) == u = "playlist"

\* An outcome of a download step: the value returned and the temporary files
\* of the step that exist when it returns.
\* lines 341-354, the streamed download of a direct MP4 URL: the request
\* fails before the file is created; the stream breaks after it was created
\* (the handler at line 356 returns None and leaves the file); or the file is
\* complete
fetch_mp4(p) ==
    { [video |-> None,        files |-> {}],
      [video |-> None,        files |-> {TempFile(p)}],
      [video |-> TempFile(p), files |-> {TempFile(p)}] }

\* convert_hls_to_mp4 (360-456): yt-dlp fails, times out or cannot be started
\* (the placeholder is unlinked, lines 434-447); it exits 0 and the output is
\* in the placeholder's name; it exits 0 and a non-empty output is found under
\* another extension (the empty placeholder stays); it exits 0 and no
\* non-empty file is found (line 418: the placeholder stays)
convert_hls_to_mp4(p) ==
    { [video |-> None,        files |-> {}],
      [video |-> TempFile(p), files |-> {TempFile(p)}],
      [video |-> TempFile(p), files |-> {TempFile(p), Placeholder(p)}],
      [video |-> None,        files |-> {Placeholder(p)}] }

\* download_reddit_video (277-358): the URL kind found, how it was handled
\* ("plain": requests.get of the URL, "transcode": convert_hls_to_mp4), the
\* value returned and the temporary files left on disk
download_reddit_video(p) ==
    UNION { IF u = "none"
            THEN {[kind |-> u, how |-> "none", video |-> None, files |-> {}]}
            ELSE IF NeedsTranscode(u)
            THEN {[kind |-> u, how |-> "transcode", video |-> o.video,
                   files |-> o.files] : o \in convert_hls_to_mp4(p)}
            ELSE {[kind |-> u, how |-> "plain", video |-> o.video,
                   files |-> o.files] : o \in fetch_mp4(p)}
          : u \in VideoUrls(p) }

\* check_subreddits line 693: media_url before the resolutions
default_media_url(is_self, url) == IF is_self THEN None ELSE url

\* check_subreddits line 724: the image resolution gate
image_gate_Always(is_nsfw, is_self) == TRUE
image_gate(is_nsfw, is_self) == is_nsfw \/ ~is_self
ImageGate(p) == image_gate(Post(p).over_18, Post(p).is_self)

\* check_subreddits lines 717-724: download_reddit_image is called
image_attempted(is_nsfw, is_self, video) ==
    video = None /\ image_gate(is_nsfw, is_self)

\* check_subreddits lines 693 and 715-731: media_url after the two
\* resolutions, video being what download_reddit_video returned and image
\* what download_reddit_image returns for the post
resolved_media_url_KeepsUrl(is_nsfw, is_self, url, video, image) ==
    IF image_gate(is_nsfw, is_self) /\ image # None THEN image
    ELSE default_media_url(is_self, url)
resolved_media_url(is_nsfw, is_self, url, video, image) ==
    IF video # None THEN None
    ELSE IF image_attempted(is_nsfw, is_self, video) /\ image # None THEN image
    ELSE default_media_url(is_self, url)

\* cleanup_temp_file (458-465), of the files on disk
cleanup_temp_file(files, path) == files \ {path}

\* what is known of a resolution before it ran
NoResolution == [kind |-> "none", how |-> "none", image |-> FALSE]

\* check_subreddits line 673
IsNew(p, processed) == p \notin processed

\* check_subreddits line 681
ShouldSkip_Inverted(send_text_only, has_media) == ~send_text_only /\ has_media
ShouldSkip(send_text_only, has_media) == ~send_text_only /\ ~has_media

\* check_subreddits line 741
MarksProcessed_Always(success) == TRUE
MarksProcessed(success) == success = "true"

\* check_subreddits line 747
AtCheckpoint(processed) == Cardinality(processed) % CheckpointEvery = 0

\* send_telegram_message lines 585, 616, 653: the method selection (a
\* temporary file handed over by the orchestrator exists)
PrimaryMethod_NoVideo(media, video) ==
    IF media.kind = "url" /\ media.ext \in PhotoExts THEN "photo" ELSE "text"
PrimaryMethod(media, video) ==
    IF video.kind = "file" THEN "video"
    ELSE IF media.kind = "url" /\ media.ext \in PhotoExts THEN "photo"
    ELSE "text"

\* what a send can end in: confirmed by the endpoint, a requests exception
\* (connection error, timeout, non-2xx via raise_for_status), or, for the
\* multipart upload, an error opening or reading the local file
Results(method) ==
    IF method = "video" THEN {"ok", "reqerr", "fileerr"} ELSE {"ok", "reqerr"}

\* the exception a result raises in the sending code
ExcOf(res) ==
    CASE res = "ok" -> "none"
      [] res = "reqerr" -> "RequestException"
      [] res = "fileerr" -> "OSError"

\* except requests.exceptions.RequestException (lines 603, 632)
InnerCatches_Any(exc) == exc \in {"RequestException", "OSError"}
InnerCatches(exc) == exc = "RequestException"
\* except Exception (line 657)
OuterCatches_RequestOnly(exc) == exc = "RequestException"
OuterCatches(exc) == exc \in {"RequestException", "OSError"}
\* except Exception in send_text_message (line 212)
TextCatches(exc) == exc \in {"RequestException", "OSError"}

\* send_text_message: True on a confirmed send, False on a caught exception,
\* the exception itself when nothing catches it
send_text_message_AlwaysTrue(res) == "true"
send_text_message(res) ==
    IF ExcOf(res) = "none" THEN "true"
    ELSE IF TextCatches(ExcOf(res)) THEN "false"
    ELSE "raise"

\* add_failed_message lines 143-149: the record appended to the queue (the
\* message and the origin URL are those of the post; the timestamp is left out)
NewFailure(message, media, post_url) ==
    [message |-> message, media_url |-> media, post_url |-> post_url,
     retry_count |-> 0]

\* the second argument of add_failed_message in the outer handler (line 661)
MediaOrVideo(media, video) == IF media.kind # "none" THEN media ELSE video

\* retry_failed_messages lines 175, 182
ShouldDiscard_Late(retry_count) == retry_count > MaxRetries
ShouldDiscard(retry_count) == retry_count >= MaxRetries

\* retry_failed_messages lines 174, 181: failed_msg['retry_count'] += 1
Incremented_ByTwo(record) == [record EXCEPT !.retry_count = @ + 2]
Incremented(record) == [record EXCEPT !.retry_count = @ + 1]

\* retry_failed_messages lines 186-187: pop the marked indices, last first
PopAll_KeepsNone(q, marks) == <<>>
RECURSIVE PopAll(_, _)
PopAt(q, k) == [j \in 1..(Len(q) - 1) |-> IF j < k THEN q[j] ELSE q[j + 1]]
PopAll(q, marks) ==
    IF marks = <<>> THEN q
    ELSE PopAll(PopAt(q, marks[Len(marks)]), SubSeq(marks, 1, Len(marks) - 1))

\* json.dump(list(self.processed_posts)): the identifiers in any order
RECURSIVE Perms(_)
Perms(S) ==
    IF S = {} THEN {<<>>}
    ELSE UNION {{<<x>> \o q : q \in Perms(S \ {x})} : x \in S}
\* set(json.load(f))
ToSet(s) == {s[k] : k \in 1..Len(s)}

\* subreddit.new(limit=...): the posts of a subreddit, most recent first
RECURSIVE Descending(_)
Descending(S) ==
    IF S = {} THEN <<>>
    ELSE LET m == CHOOSE x \in S : \A y \in S : y <= x
         IN <<m>> \o Descending(S \ {m})
Feeds(s) == {Descending(S) : S \in SUBSET {p \in Posts : SubOf(p) = s}}

\* ------------------------------------------------------------------ state
VARIABLES
    pc,                 \* where the single worker is
    init,               \* how the last RedditToTelegramBot() ended: "none" before
                        \* the first, "ok", or the error it raised
    entry,              \* "bot" (reddit_to_telegram.py) or "service" (run_service.py)
    send_text_only,     \* config['send_text_only_posts']
    running,            \* RedditTelegramService.running
    processed_posts,    \* RedditToTelegramBot.processed_posts
    failed_messages,    \* RedditToTelegramBot.failed_messages
    diskProcessed,      \* processed_posts.json: a list of identifiers
    diskFailed,         \* failed_messages.json: a list of records
    sub,                \* index into config['subreddits'] of check_subreddits' loop
    feed,               \* the posts of subreddit.new(...) not yet iterated
    cur,                \* the post being processed (0: none)
    media_url,          \* check_subreddits' media_url
    video_file_path,    \* check_subreddits' video_file_path
    calls,              \* what the current send_telegram_message call has done
    ret,                \* its return value: "none" while running
    i,                  \* retry_failed_messages' loop index
    messages_to_remove, \* retry_failed_messages' messages_to_remove
    cycleLog,           \* history: the steps of the current cycle after the feeds
    drainFound,         \* history: the current cycle's drain found a non-empty queue
    everProcessed,      \* history: identifiers ever added to processed_posts
    skipped,            \* history: posts skipped as text-only
    delivered,          \* history: posts whose delivery returned True
    undelivered,        \* history: unprocessed posts whose delivery returned False
                        \* in this process
    fellBack,           \* history: posts whose delivery, in the current cycle,
                        \* returned True from the text sent in place of the media
    drainStart,         \* history: the queue as the current cycle's drain found it
    drainLog,           \* history: the sends of the current cycle's drain
    temp_files,         \* the temporary files on disk that were created for the
                        \* post being processed; they are followed until the
                        \* worker moves on from that post
    resolution,         \* history: what the resolution of post cur did
    input,              \* the arguments of the function under study (SpecFunctions)
    output,             \* what the function returned for them
    restart_count,      \* RedditTelegramService.restart_count (SpecService)
    bot                 \* RedditTelegramService.bot is set (SpecService)

vars == <<pc, init, entry, send_text_only, running, processed_posts,
          failed_messages, diskProcessed, diskFailed, sub, feed, cur, media_url,
          video_file_path, calls, ret, i, messages_to_remove, cycleLog,
          drainFound, everProcessed, skipped, delivered, undelivered, fellBack,
          drainStart, drainLog, temp_files, resolution, input, output,
          restart_count, bot>>

config == <<init, entry, send_text_only>>
\* RedditTelegramService's fields that only SpecService follows
supervisor == <<restart_count, bot>>
\* no step of the program touches the variables of SpecFunctions; the steps of
\* Spec leave the restart counter to SpecService
args == <<input, output, supervisor>>
disk == <<diskProcessed, diskFailed>>
post_locals == <<cur, media_url, video_file_path, calls, ret, resolution>>
drain_locals == <<i, messages_to_remove, drainStart, drainLog>>
history == <<everProcessed, skipped, delivered>>

\* no process: nothing in memory
NoProcess ==
    /\ pc' = "stopped"
    /\ running' = FALSE
    /\ processed_posts' = {}
    /\ failed_messages' = <<>>
    /\ sub' = 1
    /\ feed' = <<>>
    /\ cur' = 0
    /\ media_url' = None
    /\ video_file_path' = None
    /\ calls' = <<>>
    /\ ret' = "none"
    /\ i' = 1
    /\ messages_to_remove' = <<>>
    /\ cycleLog' = <<>>
    /\ drainFound' = FALSE
    /\ drainStart' = <<>>
    /\ drainLog' = <<>>
    /\ undelivered' = {}
    /\ fellBack' = {}
    /\ resolution' = NoResolution
    /\ temp_files' = temp_files

\* the arguments and the result while no function is under study
NoInput == [fn |-> "none"]
NoOutput == [fn |-> "none"]

\* no process was started yet and there are no state files
Idle ==
    /\ pc = "stopped"
    /\ init = "none"
    /\ entry = "bot"
    /\ send_text_only = FALSE
    /\ running = FALSE
    /\ processed_posts = {}
    /\ failed_messages = <<>>
    /\ diskProcessed = <<>>
    /\ diskFailed = <<>>
    /\ sub = 1
    /\ feed = <<>>
    /\ cur = 0
    /\ media_url = None
    /\ video_file_path = None
    /\ calls = <<>>
    /\ ret = "none"
    /\ i = 1
    /\ messages_to_remove = <<>>
    /\ cycleLog = <<>>
    /\ drainFound = FALSE
    /\ drainStart = <<>>
    /\ drainLog = <<>>
    /\ everProcessed = {}
    /\ skipped = {}
    /\ delivered = {}
    /\ undelivered = {}
    /\ fellBack = {}
    /\ temp_files = {}
    /\ resolution = NoResolution
    /\ restart_count = 0
    /\ bot = FALSE

Init ==
    /\ Idle
    /\ input = NoInput
    /\ output = NoOutput

\* a state file whose content json.load cannot decode
MalformedSet == <<0>>
MalformedQueue ==
    <<[message |-> 0, media_url |-> None, post_url |-> 0, retry_count |-> 0]>>

\* load_processed_posts: set(json.load(f)), the empty set without a file
load_processed_posts_Forgets == {}
load_processed_posts == ToSet(diskProcessed)
\* load_processed_posts lines 112-116: only FileNotFoundError is caught, the
\* JSONDecodeError of a malformed file leaves the method
load_processed_posts_raises == diskProcessed = MalformedSet

\* load_failed_messages (123-131): every exception is caught and logged, the
\* queue is then empty
load_failed_messages == IF diskFailed = MalformedQueue THEN <<>> ELSE diskFailed

\* open('processed_posts.json', 'w') and json.dump(list(ids), f): the file is
\* truncated, then holds the identifiers of the set once each, in the order in
\* which the set happens to iterate
dump_DropsLast(file, ids) == { SubSeq(d, 1, Len(d) - 1) : d \in Perms(ids) }
dump(file, ids) == Perms(ids)

\* save_processed_posts
save_processed_posts == diskProcessed' \in dump(diskProcessed, processed_posts)

\* save_failed_messages, of the queue q
save_failed_messages(q) == diskFailed' = q

\* RedditToTelegramBot.__init__: load_config, load_processed_posts,
\* load_failed_messages (setup_reddit succeeds)
NewBot ==
    /\ ~load_processed_posts_raises
    /\ init' = "ok"
    /\ send_text_only' \in BOOLEAN
    /\ processed_posts' = load_processed_posts
    /\ failed_messages' = load_failed_messages
    /\ pc' = "fetch"
    /\ sub' = 1
    /\ cycleLog' = <<>>
    /\ drainFound' = FALSE
    /\ undelivered' = {}
    /\ fellBack' = {}
    /\ temp_files' = {}
    /\ UNCHANGED <<args, disk, feed, post_locals, drain_locals, history>>

\* python reddit_to_telegram.py: main -> RedditToTelegramBot() -> run
StartBot ==
    /\ pc = "stopped"
    /\ entry' = "bot"
    /\ running' = FALSE
    /\ NewBot

\* python run_service.py: RedditTelegramService.run -> initialize_bot
StartService ==
    /\ pc = "stopped"
    /\ entry' = "service"
    /\ running' = TRUE
    /\ NewBot

\* ------------------------------------------------- check_subreddits (664-752)
\* subreddit.new(...) answers for config['subreddits'][sub]
Fetch ==
    /\ pc = "fetch"
    /\ sub <= NumSubs
    /\ feed' \in Feeds(sub)
    /\ pc' = "next"
    /\ temp_files' = {}
    /\ UNCHANGED <<config, args, running, processed_posts, failed_messages, disk, sub,
                   post_locals, drain_locals, cycleLog, drainFound, history, undelivered, fellBack>>

\* the listing raises: caught at line 750
FetchFails ==
    /\ pc = "fetch"
    /\ sub <= NumSubs
    /\ pc' = "except"
    /\ temp_files' = {}
    /\ UNCHANGED <<config, args, running, processed_posts, failed_messages, disk, sub, feed,
                   post_locals, drain_locals, cycleLog, drainFound, history, undelivered, fellBack>>

\* lines 750-752: the handler of the subreddit's try block logs the error
\* and continues with the next subreddit
next_subreddit_Breaks(s) == NumSubs + 1
next_subreddit(s) == s + 1
NextSubreddit ==
    /\ pc = "except"
    /\ sub' = next_subreddit(sub)
    /\ pc' = "fetch"
    /\ UNCHANGED <<config, args, running, processed_posts, failed_messages, disk, feed,
                   post_locals, temp_files, drain_locals, cycleLog, drainFound, history,
                   undelivered, fellBack>>

\* an identifier already in processed_posts: nothing is done for the post
SkipProcessed ==
    /\ pc = "next"
    /\ feed # <<>>
    /\ ~IsNew(Head(feed), processed_posts)
    /\ feed' = Tail(feed)
    /\ temp_files' = {}
    /\ UNCHANGED <<pc, config, args, running, processed_posts, failed_messages, disk, sub,
                   post_locals, drain_locals, cycleLog, drainFound, history, undelivered, fellBack>>

\* lines 677-684: no media and send_text_only_posts is off: mark and continue
SkipTextOnly ==
    /\ pc = "next"
    /\ feed # <<>>
    /\ IsNew(Head(feed), processed_posts)
    /\ ShouldSkip(send_text_only, has_media_content(Head(feed)))
    /\ processed_posts' = processed_posts \cup {Head(feed)}
    /\ everProcessed' = everProcessed \cup {Head(feed)}
    /\ skipped' = skipped \cup {Head(feed)}
    /\ feed' = Tail(feed)
    /\ temp_files' = {}
    /\ UNCHANGED <<pc, config, args, running, failed_messages, disk, sub, post_locals,
                   drain_locals, cycleLog, drainFound, delivered, undelivered, fellBack>>

\* lines 686-694: format_post_message, the default media_url
BeginPost ==
    /\ pc = "next"
    /\ feed # <<>>
    /\ IsNew(Head(feed), processed_posts)
    /\ ~ShouldSkip(send_text_only, has_media_content(Head(feed)))
    /\ cur' = Head(feed)
    /\ media_url' = default_media_url(Post(Head(feed)).is_self, PostUrl(Head(feed)))
    /\ video_file_path' = None
    /\ calls' = <<>>
    /\ ret' = "none"
    /\ temp_files' = {}
    /\ resolution' = NoResolution
    /\ pc' = "resolve"
    /\ UNCHANGED <<config, args, running, processed_posts, failed_messages, disk, sub, feed,
                   drain_locals, cycleLog, drainFound, history, undelivered, fellBack>>

\* lines 714-731: video first, then the image, for NSFW or non-self posts
Resolve ==
    /\ pc = "resolve"
    /\ \E o \in download_reddit_video(cur) :
        /\ video_file_path' = o.video
        /\ temp_files' = o.files
        /\ resolution' = [kind |-> o.kind, how |-> o.how,
                          image |-> image_attempted(Post(cur).over_18,
                                                    Post(cur).is_self, o.video)]
        /\ media_url' = resolved_media_url(Post(cur).over_18, Post(cur).is_self,
                                           PostUrl(cur), o.video,
                                           download_reddit_image(cur))
    /\ pc' = "send"
    /\ UNCHANGED <<config, args, running, processed_posts, failed_messages, disk, sub, feed,
                   cur, calls, ret, drain_locals, cycleLog, drainFound, history, undelivered, fellBack>>

\* the subreddit's posts are exhausted
EndFeed ==
    /\ pc = "next"
    /\ feed = <<>>
    /\ sub' = sub + 1
    /\ pc' = "fetch"
    /\ temp_files' = {}
    /\ UNCHANGED <<config, args, running, processed_posts, failed_messages, disk, feed,
                   post_locals, drain_locals, cycleLog, drainFound, history, undelivered, fellBack>>

\* ------------------------------------------ send_telegram_message (575-662)
\* where an exception raised inside the outer try block ends up
Raised(exc) == IF OuterCatches(exc) THEN "enq_outer" ELSE "after"
\* the call went through lines 603-613 or 632-651: the media send raised a
\* RequestException and the text was sent in its place
after_fallback(c) == \E k \in DOMAIN c : c[k].op = "enqueue"

\* the primary send: sendVideo (597), sendPhoto (626) or send_text_message (655)
Send ==
    /\ pc = "send"
    /\ LET m == PrimaryMethod(media_url, video_file_path) IN
       \E r \in Results(m) :
        /\ (m # "text" /\ r # "ok") => Len(failed_messages) < MaxQueue
        /\ calls' = Append(calls, [op |-> m, res |-> r])
        /\ IF m = "text"
           THEN /\ ret' = IF send_text_message(r) = "raise" /\ OuterCatches(ExcOf(r))
                          THEN "none" ELSE send_text_message(r)
                /\ pc' = IF send_text_message(r) = "raise" THEN Raised(ExcOf(r))
                         ELSE "after"
           ELSE IF ExcOf(r) = "none"
           THEN ret' = "true" /\ pc' = "after"
           ELSE IF InnerCatches(ExcOf(r))
           THEN ret' = "none" /\ pc' = "enq_inner"
           ELSE /\ ret' = IF OuterCatches(ExcOf(r)) THEN "none" ELSE "raise"
                /\ pc' = Raised(ExcOf(r))
    /\ UNCHANGED <<config, args, running, processed_posts, failed_messages, disk, sub, feed,
                   cur, media_url, video_file_path, drain_locals, cycleLog,
                   drainFound, history, undelivered, fellBack, temp_files, resolution>>

\* add_failed_message (141-152): append, then save_failed_messages
add_failed_message_NoSave(message, media, post_url) ==
    /\ failed_messages' = Append(failed_messages, NewFailure(message, media, post_url))
    /\ UNCHANGED diskFailed
add_failed_message(message, media, post_url) ==
    /\ failed_messages' = Append(failed_messages, NewFailure(message, media, post_url))
    /\ save_failed_messages(failed_messages')

\* lines 603-606 and 632-640: the media send raised a RequestException
EnqueueFailed ==
    /\ pc = "enq_inner"
    /\ add_failed_message(cur, IF video_file_path # None THEN video_file_path
                               ELSE media_url, cur)
    /\ calls' = Append(calls, [op |-> "enqueue", res |-> "-"])
    /\ pc' = "fallback"
    /\ UNCHANGED <<config, args, running, processed_posts, diskProcessed, sub, feed, cur,
                   media_url, video_file_path, ret, drain_locals, cycleLog,
                   drainFound, history, undelivered, fellBack, temp_files, resolution>>

\* lines 608-613 and 642-651: return self.send_text_message(fallback_message)
Fallback ==
    /\ pc = "fallback"
    /\ \E r \in Results("text") :
        /\ calls' = Append(calls, [op |-> "text", res |-> r])
        /\ ret' = IF send_text_message(r) = "raise" /\ OuterCatches(ExcOf(r))
                  THEN "none" ELSE send_text_message(r)
        /\ pc' = IF send_text_message(r) = "raise" THEN Raised(ExcOf(r)) ELSE "after"
    /\ UNCHANGED <<config, args, running, processed_posts, failed_messages, disk, sub, feed,
                   cur, media_url, video_file_path, drain_locals, cycleLog,
                   drainFound, history, undelivered, fellBack, temp_files, resolution>>

\* lines 657-662: any other exception: queue the message if it had media,
\* return False
Unexpected ==
    /\ pc = "enq_outer"
    /\ IF media_url # None \/ video_file_path # None
       THEN /\ add_failed_message(cur, MediaOrVideo(media_url, video_file_path), cur)
            /\ calls' = Append(calls, [op |-> "enqueue", res |-> "-"])
       ELSE UNCHANGED <<failed_messages, diskFailed, calls>>
    /\ ret' = "false"
    /\ pc' = "after"
    /\ UNCHANGED <<config, args, running, processed_posts, diskProcessed, sub, feed, cur,
                   media_url, video_file_path, drain_locals, cycleLog, drainFound,
                   history, undelivered, fellBack, temp_files, resolution>>

\* lines 737-748: cleanup_temp_file, mark on success, the checkpoint; an
\* exception out of the delivery is caught at line 750 and ends the subreddit
AfterDeliver ==
    /\ pc = "after"
    /\ IF ret = "raise"
       THEN /\ feed' = <<>>
            /\ pc' = "except"
            /\ UNCHANGED <<processed_posts, diskProcessed, history, undelivered, fellBack,
                           sub>>
       ELSE /\ processed_posts' = IF MarksProcessed(ret) THEN processed_posts \cup {cur}
                                  ELSE processed_posts
            /\ everProcessed' = everProcessed \cup (processed_posts' \ processed_posts)
            /\ delivered' = IF ret = "true" THEN delivered \cup {cur} ELSE delivered
            /\ undelivered' = IF ret = "false" THEN undelivered \cup {cur}
                              ELSE undelivered \ {cur}
            /\ fellBack' = IF ret = "true" /\ after_fallback(calls) THEN fellBack \cup {cur}
                           ELSE fellBack
            /\ IF AtCheckpoint(processed_posts')
               THEN diskProcessed' \in dump(diskProcessed, processed_posts')
               ELSE UNCHANGED diskProcessed
            /\ feed' = Tail(feed)
            /\ pc' = "next"
            /\ UNCHANGED <<sub, skipped>>
    /\ temp_files' = IF ret # "raise" /\ video_file_path # None
                     THEN cleanup_temp_file(temp_files, video_file_path)
                     ELSE temp_files
    /\ cur' = 0
    /\ media_url' = None
    /\ video_file_path' = None
    /\ calls' = <<>>
    /\ ret' = "none"
    /\ resolution' = NoResolution
    /\ UNCHANGED <<config, args, running, failed_messages, diskFailed, drain_locals,
                   cycleLog, drainFound>>

\* ---------------------------------------------------------- after the feeds
NextCycle ==
    /\ pc' = "fetch"
    /\ sub' = 1
    /\ cycleLog' = <<>>
    /\ drainFound' = FALSE
    /\ drainStart' = <<>>
    /\ drainLog' = <<>>
    /\ fellBack' = {}
    /\ UNCHANGED <<i, messages_to_remove>>

\* RedditToTelegramBot.run lines 762-763
BotSave ==
    /\ pc = "fetch"
    /\ sub > NumSubs
    /\ entry = "bot"
    /\ save_processed_posts
    /\ cycleLog' = Append(cycleLog, "save")
    /\ pc' = "retry"
    /\ UNCHANGED <<config, args, running, processed_posts, failed_messages, diskFailed, sub,
                   feed, post_locals, temp_files, drain_locals, drainFound, history, undelivered, fellBack>>

\* RedditTelegramService.run_bot_cycle lines 78-79
ServiceSave ==
    /\ pc = "fetch"
    /\ sub > NumSubs
    /\ entry = "service"
    /\ save_processed_posts
    /\ cycleLog' = Append(cycleLog, "save")
    /\ pc' = "wait"
    /\ UNCHANGED <<config, args, running, processed_posts, failed_messages, diskFailed, sub,
                   feed, post_locals, temp_files, drain_locals, drainFound, history, undelivered, fellBack>>

\* ------------------------------------------ retry_failed_messages (154-191)
\* lines 156-160 (called from run, line 766)
RetryBegin ==
    /\ pc = "retry"
    /\ cycleLog' = Append(cycleLog, "drain")
    /\ drainFound' = (failed_messages # <<>>)
    /\ pc' = IF failed_messages = <<>> THEN "wait" ELSE "retry_loop"
    /\ i' = 1
    /\ messages_to_remove' = <<>>
    /\ drainStart' = failed_messages
    /\ drainLog' = <<>>
    /\ UNCHANGED <<config, args, running, processed_posts, failed_messages, disk, sub, feed,
                   post_locals, temp_files, history, undelivered, fellBack>>

\* lines 162-183: one record: a plain text send; on failure the counter goes
\* up and the record is marked once the counter reaches the ceiling
RetryOne ==
    /\ pc = "retry_loop"
    /\ i <= Len(failed_messages)
    /\ \E r \in Results("text") :
        /\ drainLog' = Append(drainLog, [op |-> "text", res |-> r])
        /\ IF send_text_message(r) = "true"
           THEN /\ messages_to_remove' = Append(messages_to_remove, i)
                /\ UNCHANGED failed_messages
           ELSE /\ failed_messages' =
                     [failed_messages EXCEPT ![i] = Incremented(@)]
                /\ messages_to_remove' =
                     IF ShouldDiscard(failed_messages'[i].retry_count)
                     THEN Append(messages_to_remove, i)
                     ELSE messages_to_remove
    /\ i' = i + 1
    /\ UNCHANGED drainStart
    /\ UNCHANGED <<pc, config, args, running, processed_posts, disk, sub, feed, post_locals, temp_files,
                   cycleLog, drainFound, history, undelivered, fellBack>>

\* lines 185-191: the batch removal, and the save when something was removed
RetryEnd ==
    /\ pc = "retry_loop"
    /\ i > Len(failed_messages)
    /\ failed_messages' = PopAll(failed_messages, messages_to_remove)
    /\ IF messages_to_remove # <<>>
       THEN save_failed_messages(failed_messages')
       ELSE UNCHANGED diskFailed
    /\ i' = 1
    /\ messages_to_remove' = <<>>
    /\ pc' = "wait"
    /\ UNCHANGED <<drainStart, drainLog>>
    /\ UNCHANGED <<config, args, running, processed_posts, diskProcessed, sub, feed,
                   post_locals, temp_files, cycleLog, drainFound, history, undelivered, fellBack>>

\* ------------------------------------- RedditToTelegramBot.run (754-777)
\* lines 768-769: time.sleep(check_interval), then the next cycle
BotSleep ==
    /\ pc = "wait"
    /\ entry = "bot"
    /\ NextCycle
    /\ UNCHANGED <<config, args, running, processed_posts, failed_messages, disk, feed,
                   post_locals, temp_files, history, undelivered>>

\* lines 774-777: the wait raises (config['check_interval'] is missing or is
\* no number): save, re-raise, main returns 1
BotSleepRaises ==
    /\ pc = "wait"
    /\ entry = "bot"
    /\ save_processed_posts
    /\ NoProcess
    /\ UNCHANGED <<config, args, diskFailed, history>>

\* lines 771-773: KeyboardInterrupt, wherever the worker is: save and leave
Interrupt ==
    /\ pc # "stopped"
    /\ entry = "bot"
    /\ save_processed_posts
    /\ NoProcess
    /\ UNCHANGED <<config, args, diskFailed, history>>

\* ------------------------------ RedditTelegramService (run_service.py)
\* signal_handler (51-54)
Signal ==
    /\ pc # "stopped"
    /\ entry = "service"
    /\ running
    /\ running' = FALSE
    /\ UNCHANGED <<pc, config, args, processed_posts, failed_messages, disk, sub, feed,
                   post_locals, temp_files, drain_locals, cycleLog, drainFound, history, undelivered, fellBack>>

\* run_bot_cycle lines 82-91 returned True and run's inner loop goes on (128)
ServiceSleep ==
    /\ pc = "wait"
    /\ entry = "service"
    /\ running
    /\ NextCycle
    /\ UNCHANGED <<config, args, running, processed_posts, failed_messages, disk, feed,
                   post_locals, temp_files, history, undelivered>>

\* run lines 128-133 and 161-168: stopped by the signal: the last save of both
\* files, then the end
ServiceStop ==
    /\ pc = "wait"
    /\ entry = "service"
    /\ ~running
    /\ save_processed_posts
    /\ save_failed_messages(failed_messages)
    /\ NoProcess
    /\ UNCHANGED <<config, args, history>>

\* run_bot_cycle lines 100-102 and run lines 133-140: the wait raises
\* (range(interval) on a check_interval that is no integer), the cycle returns
\* False, the bot is dropped after the restart delay (restart_count and its
\* limit max_restarts are followed in SpecService: here the supervisor may
\* restart any number of times)
ServiceCycleFails ==
    /\ pc = "wait"
    /\ entry = "service"
    /\ running
    /\ pc' = "restarting"
    /\ processed_posts' = {}
    /\ failed_messages' = <<>>
    /\ UNCHANGED <<config, args, running, disk, sub, feed, post_locals, temp_files, drain_locals,
                   cycleLog, drainFound, history, undelivered, fellBack>>

\* run lines 117-127: a new RedditToTelegramBot
ServiceReinit ==
    /\ pc = "restarting"
    /\ running
    /\ NewBot
    /\ UNCHANGED <<entry, running>>

\* run lines 117 and 162: stopped during the restart delay: no bot, no save
ServiceStopNoBot ==
    /\ pc = "restarting"
    /\ ~running
    /\ NoProcess
    /\ UNCHANGED <<config, args, disk, history>>

Next ==
    \/ StartBot \/ StartService
    \/ Fetch \/ FetchFails \/ NextSubreddit \/ SkipProcessed \/ SkipTextOnly
    \/ BeginPost
    \/ Resolve \/ EndFeed
    \/ Send \/ EnqueueFailed \/ Fallback \/ Unexpected \/ AfterDeliver
    \/ BotSave \/ ServiceSave
    \/ RetryBegin \/ RetryOne \/ RetryEnd
    \/ BotSleep \/ BotSleepRaises \/ Interrupt
    \/ Signal \/ ServiceSleep \/ ServiceStop \/ ServiceCycleFails
    \/ ServiceReinit \/ ServiceStopNoBot

Spec == Init /\ [][Next]_vars

\* --------------------------------------------- startup with faults (45-131)
\* The environment of Spec never damages a file and every initialization
\* succeeds.  SpecFaults adds a state file that was damaged between two runs
\* and a RedditToTelegramBot() that raises.
\* the errors RedditToTelegramBot() can raise: load_config or setup_reddit
\* (missing or invalid config.json, failed authentication), or
\* load_processed_posts on a malformed file
InitErrors ==
    {"config_error"} \cup (IF load_processed_posts_raises THEN {"read_error"} ELSE {})

DamageProcessedFile ==
    /\ pc = "stopped"
    /\ diskProcessed # MalformedSet
    /\ diskProcessed' = MalformedSet
    /\ NoProcess
    /\ UNCHANGED <<config, args, diskFailed, history>>

DamageFailedFile ==
    /\ pc = "stopped"
    /\ diskFailed # MalformedQueue
    /\ diskFailed' = MalformedQueue
    /\ NoProcess
    /\ UNCHANGED <<config, args, diskProcessed, history>>

\* main lines 781-786: RedditToTelegramBot() raises, main logs and returns 1
StartBotFails ==
    /\ pc = "stopped"
    /\ init' \in InitErrors
    /\ entry' = "bot"
    /\ NoProcess
    /\ UNCHANGED <<args, send_text_only, disk, history>>

\* run_service.py lines 56-68 and 120-124: initialize_bot returns False, run
\* logs, sleeps 30 seconds and continues its loop; restart_count is unchanged
StartServiceFails ==
    /\ pc = "stopped"
    /\ init' \in InitErrors
    /\ entry' = "service"
    /\ running' = TRUE
    /\ pc' = "init_wait"
    /\ UNCHANGED <<args, send_text_only, processed_posts, failed_messages, disk, sub, feed,
                   post_locals, temp_files, drain_locals, cycleLog, drainFound,
                   history, undelivered, fellBack>>

\* run lines 117-124, a later turn of the loop (after a failed initialization
\* or after a restart dropped the bot): initialize_bot fails
ServiceInitFailsAgain ==
    /\ pc \in {"init_wait", "restarting"}
    /\ running
    /\ init' \in InitErrors
    /\ pc' = "init_wait"
    /\ UNCHANGED <<args, entry, send_text_only, running, processed_posts,
                   failed_messages, disk, sub, feed, post_locals, temp_files,
                   drain_locals, cycleLog, drainFound, history, undelivered, fellBack>>

\* run lines 117-127: initialize_bot succeeds on a later turn
ServiceInitSucceeds ==
    /\ pc = "init_wait"
    /\ running
    /\ NewBot
    /\ UNCHANGED <<entry, running>>

\* run lines 117 and 162: stopped by the signal while no bot exists
ServiceStopBeforeInit ==
    /\ pc = "init_wait"
    /\ ~running
    /\ NoProcess
    /\ UNCHANGED <<config, args, disk, history>>

NextFaults ==
    \/ Next
    \/ DamageProcessedFile \/ DamageFailedFile
    \/ StartBotFails \/ StartServiceFails
    \/ ServiceInitFailsAgain \/ ServiceInitSucceeds \/ ServiceStopBeforeInit

SpecFaults == Init /\ [][NextFaults]_vars

\* ------------------------------------------- state file writes that fail
\* SpecWriteFaults adds to Spec an open(..., 'w') of a state file that raises
\* (the file keeps its content).
\* save_processed_posts (118-121) has no handler: the exception leaves it
save_processed_posts_raises == UNCHANGED diskProcessed
\* save_failed_messages (133-139): the exception is caught and logged
save_failed_messages_fails == UNCHANGED diskFailed

\* lines 737-750: as AfterDeliver, but the checkpoint write at line 748
\* raises: caught at line 750
CheckpointWriteFails ==
    /\ pc = "after"
    /\ ret # "raise"
    /\ processed_posts' = IF MarksProcessed(ret) THEN processed_posts \cup {cur}
                          ELSE processed_posts
    /\ AtCheckpoint(processed_posts')
    /\ save_processed_posts_raises
    /\ everProcessed' = everProcessed \cup (processed_posts' \ processed_posts)
    /\ delivered' = IF ret = "true" THEN delivered \cup {cur} ELSE delivered
    /\ undelivered' = IF ret = "false" THEN undelivered \cup {cur}
                      ELSE undelivered \ {cur}
    /\ fellBack' = IF ret = "true" /\ after_fallback(calls) THEN fellBack \cup {cur}
                   ELSE fellBack
    /\ sub' = sub
    /\ feed' = <<>>
    /\ pc' = "except"
    /\ temp_files' = IF video_file_path # None
                     THEN cleanup_temp_file(temp_files, video_file_path)
                     ELSE temp_files
    /\ cur' = 0
    /\ media_url' = None
    /\ video_file_path' = None
    /\ calls' = <<>>
    /\ ret' = "none"
    /\ resolution' = NoResolution
    /\ UNCHANGED <<config, args, running, failed_messages, diskFailed, drain_locals,
                   cycleLog, drainFound, skipped>>

\* RedditToTelegramBot.run lines 763 and 774-777: the write after the feeds
\* raises; the handler calls save_processed_posts once more (it raises again,
\* or succeeds) and re-raises; main returns 1
BotSaveFails ==
    /\ pc = "fetch"
    /\ sub > NumSubs
    /\ entry = "bot"
    /\ (save_processed_posts_raises \/ save_processed_posts)
    /\ NoProcess
    /\ UNCHANGED <<config, args, diskFailed, history>>

\* run_bot_cycle lines 79 and 100-102: the write after the feeds raises and
\* the cycle returns False.  run lines 133-140: while running the bot is
\* dropped after the restart delay; lines 161-168 after a stop signal: the
\* last save, whose first write raises again or writes both files
ServiceSaveFails ==
    /\ pc = "fetch"
    /\ sub > NumSubs
    /\ entry = "service"
    /\ IF running
       THEN /\ pc' = "restarting"
            /\ processed_posts' = {}
            /\ failed_messages' = <<>>
            /\ UNCHANGED <<running, disk, sub, feed, post_locals, temp_files,
                           drain_locals, cycleLog, drainFound, undelivered, fellBack>>
       ELSE /\ \/ UNCHANGED disk
               \/ save_processed_posts /\ save_failed_messages(failed_messages)
            /\ NoProcess
    /\ UNCHANGED <<config, args, history>>

\* lines 603-606 and 632-640 with add_failed_message's write failing
EnqueueFailedWriteFails ==
    /\ pc = "enq_inner"
    /\ failed_messages' =
         Append(failed_messages,
                NewFailure(cur, IF video_file_path # None THEN video_file_path
                                ELSE media_url, cur))
    /\ save_failed_messages_fails
    /\ calls' = Append(calls, [op |-> "enqueue", res |-> "-"])
    /\ pc' = "fallback"
    /\ UNCHANGED <<config, args, running, processed_posts, diskProcessed, sub, feed, cur,
                   media_url, video_file_path, ret, drain_locals, cycleLog,
                   drainFound, history, undelivered, fellBack, temp_files, resolution>>

\* lines 185-191 with the write at line 190 failing
RetryEndWriteFails ==
    /\ pc = "retry_loop"
    /\ i > Len(failed_messages)
    /\ messages_to_remove # <<>>
    /\ failed_messages' = PopAll(failed_messages, messages_to_remove)
    /\ save_failed_messages_fails
    /\ i' = 1
    /\ messages_to_remove' = <<>>
    /\ pc' = "wait"
    /\ UNCHANGED <<drainStart, drainLog>>
    /\ UNCHANGED <<config, args, running, processed_posts, diskProcessed, sub, feed,
                   post_locals, temp_files, cycleLog, drainFound, history, undelivered, fellBack>>

WriteFails ==
    \/ CheckpointWriteFails \/ BotSaveFails \/ ServiceSaveFails
    \/ EnqueueFailedWriteFails \/ RetryEndWriteFails

NextWriteFaults == Next \/ WriteFails

SpecWriteFaults == Init /\ [][NextWriteFaults]_vars

\* ------------------------------------------------- the functions, one by one
\* SpecFunctions studies the pure parts of the program on their own: Init
\* draws the arguments of one function from a bounded set, and the action of
\* that function applies it once.  The program itself does not run.
machine == <<pc, init, entry, send_text_only, running, processed_posts,
             failed_messages, diskProcessed, diskFailed, sub, feed, cur,
             media_url, video_file_path, calls, ret, i, messages_to_remove,
             cycleLog, drainFound, everProcessed, skipped, delivered,
             undelivered, fellBack, drainStart, drainLog, temp_files, resolution>>

\* ---- the text messages sent in place of media
\* A text is the sequence of its parts; ref is the URL a part spells out.
Part(t, ref) == [t |-> t, ref |-> ref]
\* f"https://reddit.com{post.permalink}" (line 734)
Permalink(p) == Url(p, "permalink")

\* lines 611-612, 648-649, 166-167: the origin link, when there is a post_url
origin_link(post_url) ==
    IF post_url # None THEN <<Part("origin_link", post_url)>> ELSE <<>>

\* lines 642-646: the notice after a failed photo send
photo_notice_Leaks(media, is_nsfw) ==
    <<Part("notice_image", None), Part("media_link", media)>>
photo_notice(media, is_nsfw) ==
    IF is_nsfw THEN <<Part("notice_content", None)>>
    ELSE <<Part("notice_image", None), Part("media_link", media)>>

\* lines 608-612 (kind "video") and 642-649 (kind "photo"): fallback_message
fallback_message(kind, media, post_url, is_nsfw) ==
    <<Part("message", None)>>
      \o (IF kind = "video" THEN <<Part("notice_video", None)>>
          ELSE photo_notice(media, is_nsfw))
      \o origin_link(post_url)

\* retry_failed_messages lines 164-167: text_message
text_message(failed_msg) ==
    <<Part("message", None)>> \o origin_link(failed_msg.post_url)

\* the media argument of a failed send
MediaArgs(kind) ==
    IF kind = "video" THEN {TempFile(1)} ELSE {Url(1, "jpg"), Url(1, "png")}

FallbackInputs ==
    UNION { { [fn |-> "fallback_message", kind |-> k, media |-> m, post_url |-> u,
               is_nsfw |-> n]
              : m \in MediaArgs(k), u \in {None, Permalink(1)}, n \in BOOLEAN }
            : k \in {"video", "photo"} }

RetryInputs ==
    { [fn |-> "text_message",
       failed_msg |-> [message |-> 1, media_url |-> m, post_url |-> u,
                       retry_count |-> c]]
      : m \in MediaArgs("video") \cup MediaArgs("photo"),
        u \in {None, Permalink(1)}, c \in 0..(MaxRetries - 1) }

ApplyFallbackMessage ==
    /\ input.fn = "fallback_message"
    /\ output = NoOutput
    /\ output' = [fn |-> input.fn,
                  text |-> fallback_message(input.kind, input.media,
                                            input.post_url, input.is_nsfw)]
    /\ UNCHANGED <<machine, input, supervisor>>

ApplyTextMessage ==
    /\ input.fn = "text_message"
    /\ output = NoOutput
    /\ output' = [fn |-> input.fn, text |-> text_message(input.failed_msg)]
    /\ UNCHANGED <<machine, input, supervisor>>

\* ---- check_subreddits' choice between the video and the image
ResolveInputs ==
    { [fn |-> "resolved_media_url", is_nsfw |-> n, is_self |-> t,
       url |-> Url(1, "link"), video |-> v, image |-> g]
      : n \in BOOLEAN, t \in BOOLEAN, v \in {None, TempFile(1)},
        g \in {None, Url(1, "jpg")} }

ApplyResolvedMediaUrl ==
    /\ input.fn = "resolved_media_url"
    /\ output = NoOutput
    /\ output' = [fn |-> input.fn,
                  video_file_path |-> input.video,
                  image_attempted |-> image_attempted(input.is_nsfw, input.is_self,
                                                      input.video),
                  media_url |-> resolved_media_url(input.is_nsfw, input.is_self,
                                                   input.url, input.video,
                                                   input.image)]
    /\ UNCHANGED <<machine, input, supervisor>>

\* ---- check_subreddits lines 676-735 for one post, up to the method that
\* send_telegram_message selects: the post's attributes, the configuration
\* and what download_reddit_video returned
PrimarySendInputs ==
    { a \in { [fn |-> "primary_send", send_text_only |-> b, video |-> v,
               post |-> [is_self |-> t, over_18 |-> n, is_video |-> d, meta |-> m,
                         url_ext |-> e, meta_img |-> g]]
              : b \in BOOLEAN, v \in {None, TempFile(1)}, t \in BOOLEAN,
                n \in BOOLEAN, d \in BOOLEAN, m \in BOOLEAN,
                e \in {"none", "jpg", "webp", "mp4", "vredd"},
                g \in {"none", "jpg"} }
        : /\ a.post.is_self => a.post.url_ext = "none"
          /\ a.post.meta_img # "none" => a.post.meta
          /\ a.video # None => (a.post.is_video \/ a.post.meta) }

ApplyPrimarySend ==
    /\ input.fn = "primary_send"
    /\ output = NoOutput
    /\ LET post == input.post
           image == IF image_ext(post) = "none" THEN None ELSE Url(1, image_ext(post))
           media == resolved_media_url(post.over_18, post.is_self,
                                       Url(1, post.url_ext), input.video, image)
       IN output' =
            IF ShouldSkip(input.send_text_only, post_has_media(post))
            THEN [fn |-> input.fn, skipped |-> TRUE, method |-> "none"]
            ELSE [fn |-> input.fn, skipped |-> FALSE,
                  method |-> PrimaryMethod(media, input.video)]
    /\ UNCHANGED <<machine, input, supervisor>>

\* ---- download_reddit_video lines 280-327: the selection of the video URL
\* The submission as the selection reads it.  media is post.media (an absent
\* or empty media has neither key; oembed is "none" without the key, "thumb"
\* with a thumbnail_url, "nothumb" without one), url_vredd says whether
\* post.url contains 'v.redd.it', media_metadata lists the entries in the
\* mapping's insertion order, each with its media-id, its tag e and whether it
\* has the keys hlsUrl and dashUrl, preview_video says whether post.preview
\* has the key reddit_video_preview.  A URL is named by the field it was read
\* from and, for an entry of media_metadata, by the entry's media-id.
VUrl(src, id) == [src |-> src, id |-> id]
NoUrl == VUrl("none", 0)

MediaIds == 1..MaxEntries
VideoEntries ==
    { [id |-> k, e |-> "Image", hls |-> FALSE, dash |-> FALSE] : k \in MediaIds }
    \cup { [id |-> k, e |-> "RedditVideo", hls |-> h, dash |-> d]
            : k \in MediaIds, h \in BOOLEAN, d \in BOOLEAN }

\* the mappings over a set of entries: no media-id twice, any insertion order
RECURSIVE Filled(_, _)
Filled(E, order) ==
    IF order = <<>> THEN {<<>>}
    ELSE { <<x>> \o q : x \in {y \in E : y.id = Head(order)},
                        q \in Filled(E, Tail(order)) }
Mappings(E) ==
    UNION { Filled(E, order) : order \in UNION { Perms(K) : K \in SUBSET MediaIds } }

\* sorted(post.media_metadata.keys()): the entries by ascending media-id
SortedById_InsertionOrder(q) == q
RECURSIVE SortedById(_)
SortedById(q) ==
    IF q = <<>> THEN <<>>
    ELSE LET k == CHOOSE a \in DOMAIN q : \A b \in DOMAIN q : q[a].id <= q[b].id
         IN <<q[k]>> \o SortedById([j \in 1..(Len(q) - 1) |->
                                        IF j < k THEN q[j] ELSE q[j + 1]])

\* lines 308-316: HLS before DASH
stream_url_PrefersDash(media_info) ==
    IF media_info.dash THEN VUrl("dashUrl", media_info.id)
    ELSE IF media_info.hls THEN VUrl("hlsUrl", media_info.id)
    ELSE NoUrl
stream_url(media_info) ==
    IF media_info.hls THEN VUrl("hlsUrl", media_info.id)
    ELSE IF media_info.dash THEN VUrl("dashUrl", media_info.id)
    ELSE NoUrl

\* lines 305-316: the loop over the sorted media-ids; it breaks at the first
\* RedditVideo entry that has one of the two keys
RECURSIVE scan_video(_)
scan_video(entries) ==
    IF entries = <<>> THEN NoUrl
    ELSE IF Head(entries).e = "RedditVideo" /\ stream_url(Head(entries)) # NoUrl
    THEN stream_url(Head(entries))
    ELSE scan_video(Tail(entries))

\* lines 283-290: is_video
method_1(post) ==
    LET from_media ==
          IF post.media.reddit_video THEN VUrl("media.reddit_video.fallback_url", 0)
          ELSE IF post.media.oembed = "thumb"
          THEN VUrl("media.oembed.thumbnail_url", 0)
          ELSE NoUrl
    IN IF from_media = NoUrl /\ post.url_vredd
       THEN VUrl("post.url/DASH_720.mp4", 0)
       ELSE from_media

\* lines 293-297: a self post with media
method_2(post) ==
    IF post.media.reddit_video THEN VUrl("media.reddit_video.fallback_url", 0)
    ELSE NoUrl

\* lines 280-327: video_url
select_video_url_PreviewFirst(post) ==
    LET first == IF post.is_video THEN method_1(post)
                 ELSE IF post.is_self THEN method_2(post)
                 ELSE NoUrl
        third == IF first = NoUrl /\ post.preview_video
                 THEN VUrl("preview.reddit_video_preview.fallback_url", 0)
                 ELSE first
    IN IF third = NoUrl /\ post.media_metadata # <<>>
       THEN scan_video(SortedById(post.media_metadata))
       ELSE third
select_video_url(post) ==
    LET first == IF post.is_video THEN method_1(post)
                 ELSE IF post.is_self THEN method_2(post)
                 ELSE NoUrl
        third == IF first = NoUrl /\ post.media_metadata # <<>>
                 THEN scan_video(SortedById(post.media_metadata))
                 ELSE first
    IN IF third = NoUrl /\ post.preview_video
       THEN VUrl("preview.reddit_video_preview.fallback_url", 0)
       ELSE third

VideoUrlInputs ==
    { [fn |-> "select_video_url", is_video |-> v, is_self |-> t,
       media |-> [reddit_video |-> r, oembed |-> o], url_vredd |-> d,
       media_metadata |-> q, preview_video |-> w]
      : v \in BOOLEAN, t \in BOOLEAN, r \in BOOLEAN,
        o \in {"none", "thumb", "nothumb"}, d \in BOOLEAN,
        q \in Mappings(VideoEntries), w \in BOOLEAN }

ApplySelectVideoUrl ==
    /\ input.fn = "select_video_url"
    /\ output = NoOutput
    /\ output' = [fn |-> input.fn, url |-> select_video_url(input)]
    /\ UNCHANGED <<machine, input, supervisor>>

\* ---- download_reddit_image lines 221-271: the image URL
\* An image URL is named by the field it was read from (src), for an entry of
\* media_metadata by the entry's media-id (id), for a preview variant by its
\* x * y (n); ext is the extension found in it and q its query string, cut
\* into the pieces "&", "amp;" and "x" (anything else).
IUrl(src, id, n, ext, q) == [src |-> src, id |-> id, n |-> n, ext |-> ext, q |-> q]
NoImage == IUrl("none", 0, 0, "none", <<>>)
\* the query string of a URL as the feed escapes it
EscapedQuery == <<"x", "&", "amp;", "x">>

\* image_url.replace('&amp;', '&') (line 269): one pass from the left, the
\* text already replaced is not looked at again
unescape_Identity(q) == q
RECURSIVE unescape(_)
unescape(q) ==
    IF Len(q) < 2 THEN q
    ELSE IF q[1] = "&" /\ q[2] = "amp;"
    THEN <<"&">> \o unescape(SubSeq(q, 3, Len(q)))
    ELSE <<q[1]>> \o unescape(Tail(q))

\* media_info['p'] of an entry: preview variants with their x, y and whether
\* they have the key u; none, one, two in either order, and two of which the
\* larger has no u
Wide == [x |-> 3, y |-> 1, u |-> TRUE]
Square == [x |-> 2, y |-> 2, u |-> TRUE]
SquareNoU == [x |-> 2, y |-> 2, u |-> FALSE]
PreviewLists == {<<>>, <<Wide>>, <<Wide, Square>>, <<Square, Wide>>, <<SquareNoU, Wide>>}

\* max(media_info['p'], key=lambda x: x.get('x', 0) * x.get('y', 0)): the
\* first variant of the largest product
largest_preview(p) ==
    p[CHOOSE a \in DOMAIN p :
        /\ \A b \in DOMAIN p : p[b].x * p[b].y <= p[a].x * p[a].y
        /\ \A b \in DOMAIN p : p[b].x * p[b].y = p[a].x * p[a].y => a <= b]

\* an entry of media_metadata as download_reddit_image reads it: s says
\* whether media_info['s']['u'] exists, o whether media_info['o'][0]['u'] does.
\* An entry without s and o has any of the preview lists, one with s or o has
\* none or two variants.
ImageEntries ==
    { [id |-> k, e |-> "RedditVideo", s |-> FALSE, o |-> FALSE, p |-> <<>>]
      : k \in MediaIds }
    \cup { [id |-> k, e |-> "Image", s |-> FALSE, o |-> FALSE, p |-> c]
            : k \in MediaIds, c \in PreviewLists }
    \cup { [id |-> k, e |-> "Image", s |-> a, o |-> b, p |-> c]
            : k \in MediaIds, a \in BOOLEAN, b \in BOOLEAN,
              c \in {<<>>, <<Square, Wide>>} }

\* lines 230-247: the URL one Image entry yields, NoImage when the loop goes
\* on to the next media-id
entry_image(media_info) ==
    IF media_info.s THEN IUrl("s.u", media_info.id, 0, "jpg", EscapedQuery)
    ELSE IF media_info.o THEN IUrl("o[0].u", media_info.id, 0, "jpg", EscapedQuery)
    ELSE IF media_info.p # <<>> /\ largest_preview(media_info.p).u
    THEN IUrl("p.u", media_info.id,
              largest_preview(media_info.p).x * largest_preview(media_info.p).y,
              "jpg", EscapedQuery)
    ELSE NoImage

\* lines 227-247: the loop over the sorted media-ids
RECURSIVE scan_image(_)
scan_image(entries) ==
    IF entries = <<>> THEN NoImage
    ELSE IF Head(entries).e = "Image" /\ entry_image(Head(entries)) # NoImage
    THEN entry_image(Head(entries))
    ELSE scan_image(Tail(entries))

\* lines 221-271: image_url.  post.url is the direct URL, preview says whether
\* post.preview['images'][0]['source']['url'] exists
select_image_url(post) ==
    LET method1 == IF post.media_metadata # <<>>
                   THEN scan_image(SortedById(post.media_metadata))
                   ELSE NoImage
        method2 == IF method1 = NoImage /\ ~post.is_self /\ post.url.ext \in ImageExts
                   THEN post.url
                   ELSE method1
        method3 == IF method2 = NoImage /\ post.preview
                   THEN IUrl("preview.images[0].source.url", 0, 0, "jpg", EscapedQuery)
                   ELSE method2
    IN IF method3 = NoImage THEN NoImage
       ELSE [method3 EXCEPT !.q = unescape(@)]

\* the media_url argument an image URL makes
AsMedia(u) == IF u = NoImage THEN None ELSE Url(1, u.ext)

\* posts that differ in their media_metadata
ImageEntryInputs ==
    { [fn |-> "select_image_url", is_self |-> t, media_metadata |-> q,
       url |-> IUrl("post.url", 0, 0, "png", <<>>), preview |-> TRUE]
      : t \in BOOLEAN, q \in Mappings(ImageEntries) }

\* the query strings of up to MaxUrlLen pieces

\* posts that differ in their direct URL, with no entry in media_metadata,
\* with one that yields no URL, or with one that yields one
ImageUrlInputs ==
    { [fn |-> "select_image_url", is_self |-> t, media_metadata |-> m,
       url |-> IUrl("post.url", 0, 0, e, q), preview |-> w]
      : t \in BOOLEAN,
        m \in { <<>>,
                <<[id |-> 1, e |-> "Image", s |-> FALSE, o |-> FALSE, p |-> <<>>]>>,
                <<[id |-> 1, e |-> "Image", s |-> TRUE, o |-> FALSE, p |-> <<>>]>> },
        e \in {"none", "png", "webp"},
        q \in UNION { [1..n -> {"&", "amp;", "x"}] : n \in 0..MaxUrlLen },
        w \in BOOLEAN }

\* download_reddit_image, then the method send_telegram_message selects for
\* the URL (line 616)
ApplySelectImageUrl ==
    /\ input.fn = "select_image_url"
    /\ output = NoOutput
    /\ output' = [fn |-> input.fn,
                  url |-> select_image_url(input),
                  method |-> PrimaryMethod(AsMedia(select_image_url(input)), None)]
    /\ UNCHANGED <<machine, input, supervisor>>

\* ---- load_processed_posts / save_processed_posts lines 110-121
\* self.processed_posts.add(post.id), for the identifiers in the order given
RECURSIVE add_all(_, _)
add_all(ids, inserted) ==
    IF inserted = <<>> THEN ids
    ELSE add_all(ids \cup {Head(inserted)}, Tail(inserted))

RoundTripInputs ==
    { [fn |-> "round_trip", inserted |-> q]
      : q \in UNION { [1..n -> 1..MaxIds] : n \in 0..MaxIds } }

\* a set filled by the insertions is saved and loaded, then saved once more
\* and loaded again
ApplyRoundTrip ==
    /\ input.fn = "round_trip"
    /\ output = NoOutput
    /\ LET ids == add_all({}, input.inserted) IN
       \E first \in dump(<<>>, ids) :
       \E second \in dump(first, ToSet(first)) :
          output' = [fn |-> input.fn, saved |-> first, once |-> ToSet(first),
                     saved_again |-> second, twice |-> ToSet(second)]
    /\ UNCHANGED <<machine, input, supervisor>>

\* ---- extract_model_name lines 503-521
\* A title is a sequence of characters: "A" an uppercase letter, "a" a
\* lowercase letter, "1" a digit, a space, a tab and the pipe.
TitleChars == {"A", "a", "1", " ", "\t", "|"}
\* what str.strip and str.split take for whitespace
Whitespace == {" ", "\t"}
\* the characters of the class of line 512, which lists the digits, the
\* space and punctuation
CleanedAway == {"1", " "}
NoName == [found |-> FALSE, name |-> <<>>]

\* re.search(r'^([^|]+)\s*\|', title): group 1 is everything before the first
\* pipe, and there is no match without a pipe or with the pipe in front
first_pipe(title) ==
    IF \E k \in DOMAIN title : title[k] = "|"
    THEN CHOOSE k \in DOMAIN title :
            title[k] = "|" /\ \A j \in 1..(k - 1) : title[j] # "|"
    ELSE 0
\* str.strip()
RECURSIVE strip(_)
strip(t) ==
    IF t # <<>> /\ Head(t) \in Whitespace THEN strip(Tail(t))
    ELSE IF t # <<>> /\ t[Len(t)] \in Whitespace THEN strip(SubSeq(t, 1, Len(t) - 1))
    ELSE t
\* re.sub(r'[0-9@#$%^&*()_+=\[\]{};\'": ,.<>?/~`]', '', potential_name)
RECURSIVE clean(_)
clean(t) ==
    IF t = <<>> THEN <<>>
    ELSE IF Head(t) \in CleanedAway THEN clean(Tail(t))
    ELSE <<Head(t)>> \o clean(Tail(t))
\* str.split(): the words between runs of whitespace; word is the word begun
RECURSIVE split(_, _)
split(t, word) ==
    IF t = <<>> THEN (IF word = <<>> THEN <<>> ELSE <<word>>)
    ELSE IF Head(t) \in Whitespace
    THEN (IF word = <<>> THEN <<>> ELSE <<word>>) \o split(Tail(t), <<>>)
    ELSE split(Tail(t), Append(word, Head(t)))
\* word[0].isupper() and len(word) > 1
has_proper_name(words) ==
    \E k \in DOMAIN words : words[k][1] = "A" /\ Len(words[k]) > 1

extract_model_name(title) ==
    IF first_pipe(title) <= 1 THEN NoName
    ELSE LET potential_name == strip(SubSeq(title, 1, first_pipe(title) - 1))
             words == split(clean(potential_name), <<>>)
         IN IF has_proper_name(words)
            THEN [found |-> TRUE, name |-> potential_name]
            ELSE NoName

TitleInputs ==
    { [fn |-> "extract_model_name", title |-> t]
      : t \in UNION { [1..n -> TitleChars] : n \in 0..MaxTitle } }

ApplyExtractModelName ==
    /\ input.fn = "extract_model_name"
    /\ output = NoOutput
    /\ output' = [fn |-> input.fn, model_name |-> extract_model_name(input.title)]
    /\ UNCHANGED <<machine, input, supervisor>>

\* ---- the specification of the functions
\* ------------------- check_subreddits: the posts of one listing (672-748)
\* what the loop does with a new post: "skip" (lines 681-684, which end in
\* continue), or the delivery with what it returned
PostOutcomes == {"skip", "true", "false"}

\* lines 672-748 for new posts id, id + 1, ...: processed_posts and the set of
\* the identifiers processed_posts.json lists, after each post
RECURSIVE check_posts(_, _, _, _)
check_posts(memory, file, outcomes, id) ==
    IF outcomes = <<>>
    THEN <<>>
    ELSE LET o == Head(outcomes)
             m == IF o = "skip" \/ MarksProcessed(o) THEN memory \cup {id} ELSE memory
             f == IF o # "skip" /\ AtCheckpoint(m) THEN m ELSE file
         IN  <<[memory |-> m, file |-> f]>> \o check_posts(m, f, Tail(outcomes), id + 1)

\* a cycle starts with the file listing processed_posts (it was loaded, or
\* saved after the feeds of the cycle before): identifiers 1..known
CheckpointInputs ==
    { [fn |-> "check_posts", known |-> k, outcomes |-> q]
      : k \in 0..(CheckpointEvery - 1),
        q \in UNION { [1..n -> PostOutcomes] : n \in 1..MaxFeed } }

ApplyCheckPosts ==
    /\ input.fn = "check_posts"
    /\ output = NoOutput
    /\ output' = [fn |-> input.fn,
                  after |-> check_posts(1..input.known, 1..input.known,
                                        input.outcomes, input.known + 1)]
    /\ UNCHANGED <<machine, input, supervisor>>

InitFunctions ==
    /\ Idle
    /\ \/ input \in FallbackInputs
       \/ input \in RetryInputs
       \/ input \in ResolveInputs
       \/ input \in VideoUrlInputs
       \/ input \in ImageEntryInputs
       \/ input \in ImageUrlInputs
       \/ input \in RoundTripInputs
       \/ input \in TitleInputs
       \/ input \in PrimarySendInputs
       \/ input \in CheckpointInputs
    /\ output = NoOutput

NextFunctions ==
    \/ ApplyFallbackMessage \/ ApplyTextMessage
    \/ ApplyResolvedMediaUrl
    \/ ApplySelectVideoUrl
    \/ ApplySelectImageUrl
    \/ ApplyRoundTrip
    \/ ApplyExtractModelName
    \/ ApplyPrimarySend
    \/ ApplyCheckPosts

SpecFunctions == InitFunctions /\ [][NextFunctions]_vars

\* ================================================================= claims
\* the worker is inside the processing of post cur (resolution or delivery)
Handling == pc \in {"resolve", "send", "enq_inner", "fallback", "enq_outer", "after"}
\* send_telegram_message has returned (or raised) for post cur
Returned == pc = "after"
MediaOps == {"video", "photo"}
SendOps == {"video", "photo", "text"}
Indices(q) == 1..Len(q)

\* C1: a record's retry counter starts at 0, the record is marked for removal
\* in the very drain in which its text retry fails for the 3rd time, and no
\* record with 3 failed retries is retried or survives a drain.
C1_RetryCeiling ==
    /\ \A j \in Indices(failed_messages) :
        /\ failed_messages[j].retry_count \in 0..3
        /\ failed_messages[j].retry_count = 3 =>
              /\ pc = "retry_loop"
              /\ j < i
              /\ \E k \in Indices(messages_to_remove) : messages_to_remove[k] = j
        /\ (pc = "retry_loop" /\ j >= i) => failed_messages[j].retry_count < 3
    /\ pc = "fallback" => failed_messages[Len(failed_messages)].retry_count = 0
    /\ \A j \in Indices(diskFailed) : diskFailed[j].retry_count \in 0..2

\* C1 witness: a drain in which a record's 3rd retry has just failed
C1_ThirdFailure ==
    /\ pc = "retry_loop"
    /\ \E j \in Indices(failed_messages) :
        /\ failed_messages[j].retry_count = 3
        /\ j < i
        /\ \E k \in Indices(messages_to_remove) : messages_to_remove[k] = j

\* C2: whichever entry point drives the cycle, when the inter-cycle wait
\* begins the ProcessedSet has been persisted and then the FailureQueue has
\* been drained, in this order.
C2_PersistDrainWait == pc = "wait" => cycleLog = <<"save", "drain">>

\* C3: after a drain that found a non-empty queue the persisted FailureQueue
\* equals the in-memory one, retry counters included.
C3_DrainFlushes == (pc = "wait" /\ drainFound) => diskFailed = failed_messages

\* C4: a post whose identifier was ever in the ProcessedSet is never resolved
\* or delivered again, in the same run or after a restart or supervisor
\* re-initialisation that reloads the persisted set.
C4_NoReprocessing ==
    /\ Handling => cur \notin everProcessed
    /\ pc \notin {"stopped", "restarting"} => everProcessed \subseteq processed_posts

\* C4 witness: a post delivered by an earlier process (as text, which needs
\* send_text_only_posts on) is returned by the feed to a process started later
\* with the option off, and is found in the reloaded ProcessedSet
C4_SeenAfterRestart ==
    /\ pc = "next"
    /\ feed # <<>>
    /\ Head(feed) \in delivered
    /\ ~has_media_content(Head(feed))
    /\ ~send_text_only
    /\ Head(feed) \in processed_posts

\* C5: an identifier enters the ProcessedSet only when the post was skipped as
\* text-only or its delivery returned true; after a delivery that returned
\* false the post is not in the set, and the feed loop cannot pass over an
\* unprocessed post without processing it unless it is the text-only skip.
C5_MarkOnlyOnSuccess ==
    /\ [](processed_posts \subseteq (delivered \cup skipped))
    /\ [][(Returned /\ ret = "false" /\ pc' = "next")
            => (cur \notin processed_posts' /\ cur \in undelivered')]_vars
    /\ [][(pc = "next" /\ feed # <<>> /\ Head(feed) \notin processed_posts
             /\ pc' # "stopped" /\ feed' # feed)
            => (Head(feed) \in skipped' /\ ~has_media_content(Head(feed))
                /\ ~send_text_only)]_vars
    /\ [][(pc = "next" /\ feed # <<>> /\ Head(feed) \in undelivered
             /\ Head(feed) \notin processed_posts /\ has_media_content(Head(feed))
             /\ pc' \notin {"stopped", "next"})
            => (pc' = "resolve" /\ cur' = Head(feed))]_vars

\* C5 witness: a post whose delivery returned false is being processed again
C5_Redelivery ==
    /\ pc = "resolve"
    /\ cur \in undelivered
    /\ cur \notin processed_posts

\* C6: an unprocessed post without media met while send_text_only_posts is off
\* is added to the ProcessedSet with no resolution, formatting, delivery or
\* enqueue, in that cycle and in every later one, whatever the option says
\* by then.
C6_TextOnlySkip ==
    /\ [](Handling => cur \notin skipped)
    /\ [](\A p \in skipped : ~has_media_content(p))
    /\ [][(pc = "next" /\ feed # <<>> /\ Head(feed) \notin processed_posts
             /\ ~has_media_content(Head(feed)) /\ ~send_text_only
             /\ pc' # "stopped" /\ feed' # feed)
            => (/\ Head(feed) \in processed_posts'
                /\ Head(feed) \in skipped'
                /\ pc' = "next"
                /\ UNCHANGED <<cur, calls, ret, media_url, video_file_path,
                               failed_messages, diskFailed>>)]_vars
    /\ [][\A p \in skipped :
            (pc' # "stopped" /\ pc' # "restarting" /\ pc # "stopped"
             /\ pc # "restarting") => p \in processed_posts']_vars

\* C6 witness: a post skipped as text-only is returned by the feed to a later
\* process whose configuration allows text-only posts, and is still in the set
C6_SkippedThenToggled ==
    /\ pc = "next"
    /\ feed # <<>>
    /\ Head(feed) \in skipped
    /\ Head(feed) \notin delivered
    /\ send_text_only
    /\ Head(feed) \in processed_posts

\* the media reference send_telegram_message queues for the current post
QueuedMedia == IF video_file_path # None THEN video_file_path ELSE media_url
\* the current call queued exactly one record, which is the last of the queue
\* and is persisted
QueuedOnce ==
    /\ Cardinality({k \in Indices(calls) : calls[k].op = "enqueue"}) = 1
    /\ failed_messages # <<>>
    /\ failed_messages[Len(failed_messages)] =
          [message |-> cur, media_url |-> QueuedMedia, post_url |-> cur,
           retry_count |-> 0]
    /\ diskFailed = failed_messages
TextOutcome(res) == IF res = "ok" THEN "true" ELSE "false"
\* the media send of the current call failed
MediaSendFailed ==
    /\ calls # <<>>
    /\ calls[1].op \in MediaOps
    /\ calls[1].res # "ok"
\* failed send, one record queued, then one text fallback whose outcome is
\* the return value
QueuedThenFallback ==
    /\ Len(calls) = 3
    /\ calls[2].op = "enqueue"
    /\ calls[3].op = "text"
    /\ ret = TextOutcome(calls[3].res)
    /\ QueuedOnce

\* C7 as stated: whenever the media send fails, exactly one FailureRecord
\* {message, media reference, origin URL, counter 0} is queued before the text
\* fallback, the fallback is attempted exactly once and its outcome returned.
C7_FallbackAfterAnyFailure ==
    (Returned /\ MediaSendFailed) => QueuedThenFallback

\* C7 as amended: that holds when the media send fails with a request error
\* (network error, timeout, non-2xx answer); when it fails otherwise (the
\* local file cannot be opened or read) exactly one FailureRecord is queued,
\* no fallback is sent and deliver returns false.  Before the fallback is
\* sent the record is already queued.
C7_FallbackAfterRequestError ==
    /\ (Returned /\ MediaSendFailed /\ calls[1].res = "reqerr") => QueuedThenFallback
    /\ (Returned /\ MediaSendFailed /\ calls[1].res # "reqerr") =>
          /\ Len(calls) = 2
          /\ calls[2].op = "enqueue"
          /\ ret = "false"
          /\ QueuedOnce
    /\ pc = "fallback" => (Len(calls) = 2 /\ calls[2].op = "enqueue" /\ QueuedOnce)

\* C7 witness: a photo or video send failed with a request error, the record
\* was queued and the text fallback went through
C7_FallbackDelivered ==
    /\ Returned
    /\ MediaSendFailed
    /\ calls[1].res = "reqerr"
    /\ Len(calls) = 3
    /\ calls[3].res = "ok"
    /\ ret = "true"

\* C8: every deliver call starts with exactly one primary send, video for a
\* LocalFile, else photo for a RemoteURL with an image extension, else text;
\* it never issues two media sends, and a text send follows a media send only
\* as the single fallback after that media send failed.
C8_OnePrimaryMethod ==
    /\ (Handling /\ calls # <<>>) =>
          /\ calls[1].op =
                IF video_file_path.kind = "file" THEN "video"
                ELSE IF media_url.kind = "url"
                        /\ media_url.ext \in {"jpg", "jpeg", "png", "gif"}
                     THEN "photo"
                     ELSE "text"
          /\ \A k \in Indices(calls) : calls[k].op \in MediaOps => k = 1
          /\ \A k \in Indices(calls) :
                (calls[k].op = "text" /\ k > 1) =>
                   /\ k = 3
                   /\ calls[1].op \in MediaOps
                   /\ calls[1].res # "ok"
    /\ Returned => (calls # <<>> /\ calls[1].op \in SendOps)

\* C8 witness: a LocalFile went out through the video send, and nothing else
\* was sent
C8_VideoOnly ==
    /\ Returned
    /\ calls = <<[op |-> "video", res |-> "ok"]>>
    /\ video_file_path.kind = "file"

\* C9: deliver returns true exactly when one of the sends it issued was
\* confirmed by the endpoint; when every send failed, or none was issued, it
\* returns false.
C9_TrueOnlyWhenConfirmed ==
    Returned =>
       /\ ret = "true" =>
             \E k \in Indices(calls) : calls[k].op \in SendOps /\ calls[k].res = "ok"
       /\ (\A k \in Indices(calls) : calls[k].op \in SendOps => calls[k].res # "ok") =>
             ret = "false"

\* C9 witness: the media send and the text fallback both failed, deliver
\* returned false
C9_EverySendFailed ==
    /\ Returned
    /\ Len(calls) = 3
    /\ calls[1].res = "reqerr"
    /\ calls[3].res = "reqerr"
    /\ ret = "false"

\* C10: whatever the sends end in (success, request error, local file error)
\* deliver ends with a boolean and no exception reaches the orchestrator; the
\* plain text send used by the drain ends with a boolean as well.
C10_NeverRaises ==
    /\ Returned => ret \in {"true", "false"}
    /\ Handling => ret \in {"none", "true", "false"}
    /\ pc = "retry_loop" =>
          \A r \in Results("text") : send_text_message(r) \in {"true", "false"}

\* C10 witness: the local file could not be read, deliver returned false
C10_FileErrorReturnsFalse ==
    /\ Returned
    /\ calls # <<>>
    /\ calls[1] = [op |-> "video", res |-> "fileerr"]
    /\ ret = "false"

\* send_telegram_message is running or has returned for post cur
Delivering == pc \in {"send", "enq_inner", "fallback", "enq_outer", "after"}
\* the worker is at the head of one of check_subreddits' loops
LoopHead == pc \in {"next", "fetch", "except"}

\* C11: a temporary file created by the resolution of a post's video exists
\* until the delivery of the post has concluded, and no such file is left
\* once the processing of the post has ended, whichever way it went (delivery
\* success, text fallback, delivery error, error during the resolution).
C11_TempFilesRemoved ==
    /\ (Delivering /\ video_file_path # None) => video_file_path \in temp_files
    /\ LoopHead => temp_files = {}

\* C12: when the transcode step ends without a video (failure, timeout, no
\* non-empty output), none of its temporary files is left and the orchestrator
\* runs the image resolution whenever its gate is open.
C12_FailedTranscodeLeavesNothing ==
    (pc = "send" /\ resolution.how = "transcode" /\ video_file_path = None) =>
        /\ temp_files = {}
        /\ resolution.image = ImageGate(cur)

\* the stream URL of post p, were it used as a media reference
PlaylistUrl(p) == Url(p, "m3u8")

\* C13: a video URL that is a HLS playlist or a DASH manifest is never fetched
\* as a plain file and never becomes the media reference of a send or of a
\* queued record; a video send for such a post uploads the file the transcode
\* step returned.
C13_PlaylistOnlyTranscoded ==
    /\ (Handling /\ resolution.kind = "playlist") =>
          /\ resolution.how = "transcode"
          /\ media_url # PlaylistUrl(cur)
          /\ video_file_path # None => video_file_path = TempFile(cur)
          /\ \A k \in Indices(calls) :
                calls[k].op = "video" =>
                   (video_file_path = TempFile(cur) /\ TempFile(cur) \in temp_files)
          /\ \A k \in Indices(calls) : calls[k].op = "photo" => k = 1
    /\ \A j \in Indices(failed_messages) :
          failed_messages[j].media_url.ext # "m3u8"

\* C13 witness: the video of a post whose URL is a playlist went out through
\* the video send, as the file the transcode step produced
C13_TranscodedVideoSent ==
    /\ Returned
    /\ resolution.kind = "playlist"
    /\ resolution.how = "transcode"
    /\ calls = <<[op |-> "video", res |-> "ok"]>>
    /\ video_file_path = TempFile(cur)

\* the records of queue q that a drain with the sends of log leaves: those
\* whose send failed and whose counter, one higher, is below the ceiling
RECURSIVE Survivors(_, _)
Survivors(q, log) ==
    IF q = <<>> THEN <<>>
    ELSE LET r == [Head(q) EXCEPT !.retry_count = @ + 1]
         IN (IF Head(log).res # "ok" /\ r.retry_count < 3 THEN <<r>> ELSE <<>>)
            \o Survivors(Tail(q), Tail(log))

\* C14: a drain sends one plain text message per pending record, in queue
\* order, and removes nothing before every record was visited; the queue it
\* leaves holds exactly the records whose send failed and whose counter, one
\* higher than before, is below 3, in their original order.
C14_DrainOutcome ==
    /\ pc = "retry_loop" =>
          /\ Len(drainLog) = i - 1
          /\ Len(failed_messages) = Len(drainStart)
          /\ \A j \in Indices(drainLog) : drainLog[j].op = "text"
          /\ \A j \in Indices(failed_messages) :
                failed_messages[j] =
                   IF j < i /\ drainLog[j].res # "ok"
                   THEN [drainStart[j] EXCEPT !.retry_count = @ + 1]
                   ELSE drainStart[j]
    /\ (pc = "wait" /\ drainFound) =>
          /\ Len(drainLog) = Len(drainStart)
          /\ failed_messages = Survivors(drainStart, drainLog)

\* C14 witness: a drain of two records is over; the first send failed and its
\* record stays with a higher counter, the second went through and its record
\* is gone
C14_MixedDrain ==
    /\ pc = "wait"
    /\ Len(drainStart) = 2
    /\ drainLog[1].res = "reqerr"
    /\ drainLog[2].res = "ok"
    /\ Len(failed_messages) = 1
    /\ failed_messages[1].retry_count = drainStart[1].retry_count + 1

\* a bot object exists, with its queue
Alive == pc \notin {"stopped", "restarting"}
\* the records of q at the indices of K, in order
KeptSeq(q, K) ==
    LET F[n \in 0..Len(q)] ==
            IF n = 0 THEN <<>>
            ELSE IF n \in K THEN Append(F[n - 1], q[n]) ELSE F[n - 1]
    IN F[Len(q)]

C16_EnqueueFrame ==
    /\ [][(Alive /\ pc' \notin {"stopped", "restarting"}
             /\ failed_messages' # failed_messages /\ pc # "retry_loop") =>
            /\ pc \in {"enq_inner", "enq_outer"}
            /\ failed_messages' =
                  Append(failed_messages,
                         [message |-> cur, media_url |-> QueuedMedia,
                          post_url |-> cur, retry_count |-> 0])
            /\ processed_posts' = processed_posts
            /\ diskProcessed' = diskProcessed
            /\ diskFailed' = failed_messages']_vars
    /\ [][(pc = "enq_inner" /\ pc' = "fallback") =>
            Len(failed_messages') = Len(failed_messages) + 1]_vars
    /\ [](pc = "fallback" => diskFailed = failed_messages)

\* C16 witness: a record was just appended behind a record whose counter is 1,
\* and the file holds both as the memory does
C16_AppendedBehindRetried ==
    /\ pc = "fallback"
    /\ Len(failed_messages) = 2
    /\ failed_messages[1].retry_count = 1
    /\ failed_messages[2].retry_count = 0
    /\ diskFailed = failed_messages

\* C17: once the service was told to stop, no further cycle starts from the
\* inter-cycle wait, and whenever a process that holds a bot object ends, under
\* either entry point, the files of the ProcessedSet and of the FailureQueue
\* hold what the bot held in memory.
C17_StopPersistsBoth ==
    /\ [][(entry = "service" /\ ~running /\ pc = "wait") => pc' # "fetch"]_vars
    /\ [][(Alive /\ pc' = "stopped") =>
            /\ ToSet(diskProcessed') = processed_posts
            /\ diskFailed' = failed_messages]_vars

\* C18: the processing of a post, once begun, is never abandoned: from a step
\* of its resolution or delivery the worker goes to the next step or back to
\* the loop, and the process does not end in between, under either entry
\* point.
C18_PostNotInterrupted ==
    [][Handling => (pc' \in {"resolve", "send", "enq_inner", "fallback",
                              "enq_outer", "after", "next", "except"}
                     /\ (pc' \in {"next", "except"} => pc = "after"))]_vars

\* C19: a RedditToTelegramBot() that raised a fatal initialization error has
\* ended its process, under either entry point: nothing waits to try again,
\* and no cycle runs.
C19_InitErrorEndsProcess == init \notin {"none", "ok"} => pc = "stopped"

\* C20: no initialization is aborted by a state file that cannot be read, and
\* a bot started on such a file holds the corresponding state empty.
C20_ReadFailureStartsEmpty ==
    /\ init # "read_error"
    /\ (Alive /\ diskFailed = MalformedQueue) => failed_messages = <<>>
    /\ (Alive /\ diskProcessed = MalformedSet) => processed_posts = {}

\* C21: a step in which the write of a state file fails leaves the worker
\* where the successful write would: the process and its bot stay, the
\* in-memory ProcessedSet and FailureQueue are those of the successful step,
\* and after a post the worker goes on to the next post of the same feed.
C21_WriteFailureContinues ==
    [][WriteFails =>
        /\ pc' \notin {"stopped", "restarting"}
        /\ processed_posts \subseteq processed_posts'
        /\ pc \in {"fetch", "enq_inner"} =>
              \A j \in Indices(failed_messages) : failed_messages'[j] = failed_messages[j]
        /\ pc = "after" => (pc' = "next" /\ sub' = sub /\ feed' = Tail(feed))]_vars

\* the text names a failure to deliver the media
Notices == {"notice_video", "notice_image", "notice_content"}
HasPart(text, ts) == \E k \in Indices(text) : text[k].t \in ts
Spells(text, url) == \E k \in Indices(text) : text[k].ref = url

\* C22: every text sent in place of undelivered media (the fallback after a
\* failed video or photo send, the text retry of a queued record) carries a
\* notice that the media could not be delivered and, when there is an origin
\* URL, the origin link.
C22_ReplacementTextTellsLoss ==
    /\ output.fn = "fallback_message" =>
          /\ HasPart(output.text, Notices)
          /\ input.post_url # None => Spells(output.text, input.post_url)
    /\ output.fn = "text_message" =>
          /\ HasPart(output.text, Notices)
          /\ input.failed_msg.post_url # None =>
                Spells(output.text, input.failed_msg.post_url)

\* C23: the text sent after the failed photo send of a sensitive post does not
\* spell out the media URL and is the same whatever that URL is; the text
\* retry of a queued record never spells out the record's media reference.
C23_SensitiveUrlNotLeaked ==
    /\ (output.fn = "fallback_message" /\ input.is_nsfw) =>
          /\ ~Spells(output.text, input.media)
          /\ ~HasPart(output.text, {"media_link"})
          /\ \A m \in MediaArgs(input.kind) :
                fallback_message(input.kind, m, input.post_url, TRUE) = output.text
    /\ output.fn = "text_message" =>
          /\ ~Spells(output.text, input.failed_msg.media_url)
          /\ ~HasPart(output.text, {"media_link"})

\* C23 witness: the fallback text of a sensitive post's failed photo send
C23_SensitivePhotoFallback ==
    /\ output.fn = "fallback_message"
    /\ input.kind = "photo"
    /\ input.is_nsfw
    /\ HasPart(output.text, {"notice_content"})
    /\ Spells(output.text, Permalink(1))

\* C24: once the video resolution of a post returned a file, the image
\* resolution is not run for the post, the delivery gets the file and no
\* media URL, and its only media send is the video send; no delivery ever
\* gets both a file and a URL.
C24_VideoExcludesImage ==
    (pc \in {"send", "enq_inner", "fallback", "enq_outer", "after"}
       /\ video_file_path # None) =>
        /\ media_url = None
        /\ ~resolution.image
        /\ \A k \in Indices(calls) : calls[k].op # "photo"
        /\ calls # <<>> => calls[1].op = "video"

\* C24 witness: a post that is a video and carries images was sent as video
C24_VideoOfPostWithImages ==
    /\ pc = "after"
    /\ video_file_path # None
    /\ download_reddit_image(cur) # None
    /\ calls = <<[op |-> "video", res |-> "ok"]>>

\* C25: the image resolution is run for a post exactly when the video
\* resolution returned nothing and the post is NSFW or is no self-text post;
\* a self-text post that is not NSFW and has no video is delivered without
\* media, whatever an image resolution would have found.
C25_ImageGate ==
    output.fn = "resolved_media_url" =>
        /\ output.image_attempted <=>
              (input.video = None /\ (input.is_nsfw \/ ~input.is_self))
        /\ (~output.image_attempted /\ input.video = None) =>
              /\ input.is_self /\ ~input.is_nsfw
              /\ output.media_url = None
              /\ output.video_file_path = None
        /\ (output.image_attempted /\ input.image # None) =>
              output.media_url = input.image

\* C25 witness: a self-text post, not NSFW, without video, for which an image
\* could have been resolved
C25_SelfTextWithoutMedia ==
    /\ output.fn = "resolved_media_url"
    /\ input.is_self /\ ~input.is_nsfw
    /\ input.video = None /\ input.image # None
    /\ ~output.image_attempted
    /\ output.media_url = None

\* the four tiers of the video URL selection, each on its own
Tier1(post) ==
    IF ~post.is_video THEN NoUrl
    ELSE IF post.media.reddit_video THEN VUrl("media.reddit_video.fallback_url", 0)
    ELSE IF post.media.oembed = "thumb" THEN VUrl("media.oembed.thumbnail_url", 0)
    ELSE IF post.url_vredd THEN VUrl("post.url/DASH_720.mp4", 0)
    ELSE NoUrl
Tier2(post) ==
    IF post.is_self /\ post.media.reddit_video
    THEN VUrl("media.reddit_video.fallback_url", 0)
    ELSE NoUrl
\* the RedditVideo entries that carry a stream URL
VideoCandidates(post) ==
    { k \in DOMAIN post.media_metadata :
        /\ post.media_metadata[k].e = "RedditVideo"
        /\ post.media_metadata[k].hls \/ post.media_metadata[k].dash }
Tier3(post) ==
    IF VideoCandidates(post) = {} THEN NoUrl
    ELSE LET k == CHOOSE a \in VideoCandidates(post) :
                    \A b \in VideoCandidates(post) :
                        post.media_metadata[a].id <= post.media_metadata[b].id
         IN VUrl(IF post.media_metadata[k].hls THEN "hlsUrl" ELSE "dashUrl",
                 post.media_metadata[k].id)
Tier4(post) ==
    IF post.preview_video THEN VUrl("preview.reddit_video_preview.fallback_url", 0)
    ELSE NoUrl
Tiers(post) == <<Tier1(post), Tier2(post), Tier3(post), Tier4(post)>>

C27_HlsBeforeDash ==
    output.fn = "select_video_url" =>
        \A k \in DOMAIN input.media_metadata :
            LET media_info == input.media_metadata[k] IN
            (media_info.e = "RedditVideo" /\ media_info.hls /\ media_info.dash) =>
                /\ output.url # VUrl("dashUrl", media_info.id)
                /\ (Tier1(input) = NoUrl /\ Tier2(input) = NoUrl
                      /\ \A b \in VideoCandidates(input) :
                            media_info.id <= input.media_metadata[b].id)
                     => output.url = VUrl("hlsUrl", media_info.id)

\* C27 witness: the selected URL is the HLS URL of an entry that has both, the
\* entry being neither the first inserted nor alone
C27_HlsOfLaterInserted ==
    /\ output.fn = "select_video_url"
    /\ \E k \in DOMAIN input.media_metadata :
          /\ k > 1
          /\ input.media_metadata[k].e = "RedditVideo"
          /\ input.media_metadata[k].hls /\ input.media_metadata[k].dash
          /\ output.url = VUrl("hlsUrl", input.media_metadata[k].id)

\* the entries tagged Image, and those of them that carry a URL
ImageTagged(post) ==
    { k \in DOMAIN post.media_metadata : post.media_metadata[k].e = "Image" }
WithUrl(post) ==
    { k \in ImageTagged(post) :
        LET info == post.media_metadata[k] IN
        info.s \/ info.o \/ (info.p # <<>> /\ largest_preview(info.p).u) }
Smallest(post, K) ==
    post.media_metadata[CHOOSE a \in K : \A b \in K :
                          post.media_metadata[a].id <= post.media_metadata[b].id]
MetadataSrcs == {"s.u", "o[0].u", "p.u"}
\* the field of an entry the URL is taken from: best quality, else original,
\* else the preview variant of the largest x * y
Preferred(info, url) ==
    /\ url.id = info.id
    /\ IF info.s THEN url.src = "s.u"
       ELSE IF info.o THEN url.src = "o[0].u"
       ELSE /\ url.src = "p.u"
            /\ \A k \in DOMAIN info.p : info.p[k].x * info.p[k].y <= url.n
\* the same entries in another insertion order
Reordered(post) ==
    { [post EXCEPT !.media_metadata = [j \in DOMAIN @ |-> @[order[j]]]]
      : order \in Perms(DOMAIN post.media_metadata) }

\* C28, as stated: for a post with several Image entries, an image URL taken
\* from media_metadata is taken from the Image entry of the smallest media-id,
\* from its best-quality field, else its original field, else its largest
\* preview variant.
C28_SmallestImageEntry ==
    (output.fn = "select_image_url" /\ Cardinality(ImageTagged(input)) >= 2
       /\ output.url.src \in MetadataSrcs) =>
        Preferred(Smallest(input, ImageTagged(input)), output.url)

\* C28, amended: for a post with several Image entries of which one carries
\* a URL, the image URL is taken from the smallest media-id among the Image
\* entries that carry a URL, by the same preference of fields, and it is the
\* same for every insertion order of the mapping.
C28_SmallestImageEntryWithUrl ==
    (output.fn = "select_image_url" /\ Cardinality(ImageTagged(input)) >= 2) =>
        /\ WithUrl(input) # {} =>
              Preferred(Smallest(input, WithUrl(input)), output.url)
        /\ WithUrl(input) = {} => output.url.src \notin MetadataSrcs
        /\ \A other \in Reordered(input) : select_image_url(other) = output.url

\* C28 witness: two Image entries inserted with the larger media-id first,
\* the one of the smaller media-id has only preview variants, and the URL is
\* its variant of the largest x * y, which is not its widest
C28_LargestPreviewOfSmallestId ==
    /\ output.fn = "select_image_url"
    /\ Len(input.media_metadata) = 2
    /\ input.media_metadata[1].id > input.media_metadata[2].id
    /\ input.media_metadata[1].e = "Image" /\ input.media_metadata[1].s
    /\ input.media_metadata[2].e = "Image"
    /\ input.media_metadata[2].p = <<Wide, Square>>
    /\ output.url.src = "p.u"
    /\ output.url.id = input.media_metadata[2].id
    /\ output.url.n = 4

\* the text holds the entity &amp;
HasEntity(q) == \E k \in 1..(Len(q) - 1) : q[k] = "&" /\ q[k + 1] = "amp;"

\* C29: for a post that is no self post, has no image in media_metadata and
\* has an image extension in its direct URL, the image URL is the direct URL
\* with every &amp; replaced by &, it holds no &amp;, and the delivery sends
\* it as a photo; the preview's source is the image URL only when neither
\* media_metadata nor the direct URL yields one.
C29_DirectImageUrl ==
    output.fn = "select_image_url" =>
        /\ (~input.is_self /\ WithUrl(input) = {} /\ input.url.ext \in ImageExts) =>
              /\ output.url = [input.url EXCEPT !.q = unescape(@)]
              /\ ~HasEntity(output.url.q)
              /\ output.method = "photo"
        /\ output.url.src = "preview.images[0].source.url" =>
              /\ WithUrl(input) = {}
              /\ input.is_self \/ input.url.ext \notin ImageExts

\* C30: a ProcessedSet that is saved and loaded holds exactly the identifiers
\* that were inserted, whatever the order of the insertions and whatever the
\* order in which the file lists them; saved once more and loaded again it
\* holds the same identifiers, and the file lists no identifier twice.
C30_ProcessedSetRoundTrip ==
    output.fn = "round_trip" =>
        /\ output.once = { input.inserted[k] : k \in DOMAIN input.inserted }
        /\ output.twice = output.once
        /\ Len(output.saved) = Cardinality(output.once)
        /\ Len(output.saved_again) = Cardinality(output.once)

\* C30 witness: three insertions of two identifiers, the file lists them in
\* the other order, the second save in yet another order than the first, and
\* both loads give the two identifiers
C30_TwoIdsSavedTwice ==
    /\ output.fn = "round_trip"
    /\ input.inserted = <<2, 1, 2>>
    /\ output.saved = <<1, 2>>
    /\ output.saved_again = <<2, 1>>
    /\ output.once = {1, 2} /\ output.twice = {1, 2}

\* the segment of a title before its first pipe, none without a pipe
HasPipe(title) == \E k \in DOMAIN title : title[k] = "|"
Segment(title) ==
    SubSeq(title, 1, (CHOOSE k \in DOMAIN title :
                        title[k] = "|" /\ \A j \in 1..(k - 1) : title[j] # "|") - 1)
\* a token of the segment with its digits and punctuation stripped
Bare(token) == SelectSeq(token, LAMBDA c : c # "1")
\* a whitespace-separated token of the segment that, stripped, starts with an
\* uppercase letter and has more than one character
ProperToken(title) ==
    \E k \in DOMAIN split(Segment(title), <<>>) :
        LET token == Bare(split(Segment(title), <<>>)[k])
        IN Len(token) > 1 /\ token[1] = "A"

\* C31: extract_model_name returns the segment before the first pipe exactly
\* when one whitespace-separated token of the segment, its digits and
\* punctuation stripped, starts with an uppercase letter and has more than
\* one character; otherwise it returns no name.
C31_NameIffProperToken ==
    output.fn = "extract_model_name" =>
        /\ output.model_name.found <=> (HasPipe(input.title) /\ ProperToken(input.title))
        /\ output.model_name.found =>
              output.model_name.name = strip(Segment(input.title))

\* C32: a post whose media send failed and whose text fallback succeeded
\* inside the delivery (the delivery returned True, the post was marked
\* processed) is not sent again: no step of a later drain sends a text for a
\* record of that post.
C32_FallbackNotResent ==
    [][(/\ pc = "retry_loop"
        /\ i <= Len(failed_messages)
        /\ failed_messages[i].post_url \in fellBack
        /\ failed_messages[i].post_url \in processed_posts)
          => drainLog' = drainLog]_vars

\* C33: in every reachable state the FailureQueue holds at most one record
\* per origin post URL.
C33_OneRecordPerPost ==
    \A j, k \in Indices(failed_messages) :
        failed_messages[j].post_url = failed_messages[k].post_url => j = k

\* C34: while send_text_only_posts is false, the primary send of every
\* delivery carries media: it is a video send of a local file or a photo send
\* of an image URL, never the plain text send.
C34_PrimarySendCarriesMedia ==
    (output.fn = "primary_send" /\ ~input.send_text_only /\ ~output.skipped)
        => output.method \in MediaOps

\* ------------------------------------- RedditTelegramService.run (104-172)
\* The supervisor alone: a cycle of the bot is taken by what run_bot_cycle
\* returns, the bot's own state is not followed.
\* __init__ line 43
max_restarts == 10
\* what the supervisor leaves alone
worker == <<init, send_text_only, processed_posts, failed_messages, sub, feed,
            post_locals, temp_files, drain_locals, cycleLog, drainFound, history,
            undelivered, fellBack, input, output>>

\* __init__ (40-49) and the entry into run
ServiceInit ==
    /\ pc = "stopped"
    /\ entry' = "service"
    /\ running' = TRUE
    /\ restart_count' = 0
    /\ bot' = FALSE
    /\ pc' = "run_head"
    /\ UNCHANGED <<worker, disk>>

\* line 115 (the while condition) and line 118
RunHead ==
    /\ pc = "run_head"
    /\ pc' = IF running /\ restart_count < max_restarts
             THEN IF bot THEN "run_cycle" ELSE "run_init"
             ELSE "run_final"
    /\ UNCHANGED <<entry, running, supervisor, worker, disk>>

\* lines 119 and 124-126: initialize_bot returned True
RunInitOk ==
    /\ pc = "run_init"
    /\ bot' = TRUE
    /\ pc' = "run_cycle"
    /\ UNCHANGED <<entry, running, restart_count, worker, disk>>

\* lines 119-122: initialize_bot returned False: wait and continue
RunInitFails ==
    /\ pc = "run_init"
    /\ pc' = "run_head"
    /\ UNCHANGED <<entry, running, supervisor, worker, disk>>

\* lines 128-130: run_bot_cycle returned True (also after a
\* UnicodeEncodeError, line 98), the inner loop goes on
CycleReturnsTrue ==
    /\ pc = "run_cycle"
    /\ running
    /\ UNCHANGED vars

\* lines 128-130: run_bot_cycle returned False (lines 100-102): break
CycleFails ==
    /\ pc = "run_cycle"
    /\ running
    /\ pc' = "run_stopped"
    /\ UNCHANGED <<entry, running, supervisor, worker, disk>>

\* line 128: the inner loop ends because running is False
CycleLoopEnds ==
    /\ pc = "run_cycle"
    /\ ~running
    /\ pc' = "run_stopped"
    /\ UNCHANGED <<entry, running, supervisor, worker, disk>>

\* line 134
count_restart_Twice(count) == count + 2
count_restart(count) == count + 1

\* lines 133-142: the bot stopped; counted when the service still runs
RunStopped ==
    /\ pc = "run_stopped"
    /\ IF running
       THEN /\ restart_count' = count_restart(restart_count)
            /\ pc' = IF restart_count' < max_restarts THEN "run_delay" ELSE "run_final"
       ELSE /\ restart_count' = restart_count
            /\ pc' = "run_head"
    /\ UNCHANGED <<entry, running, bot, worker, disk>>

\* lines 137-140: after the restart delay the bot is dropped
RunDelay ==
    /\ pc = "run_delay"
    /\ bot' = FALSE
    /\ pc' = "run_head"
    /\ UNCHANGED <<entry, running, restart_count, worker, disk>>

\* lines 159-171: the last save when there is a bot, then run returns
RunFinal ==
    /\ pc = "run_final"
    /\ IF bot
       THEN save_processed_posts /\ save_failed_messages(failed_messages)
       ELSE UNCHANGED disk
    /\ NoProcess
    /\ UNCHANGED <<entry, supervisor, worker>>

NextService ==
    \/ ServiceInit \/ RunHead \/ RunInitOk \/ RunInitFails
    \/ CycleReturnsTrue \/ CycleFails \/ CycleLoopEnds
    \/ RunStopped \/ RunDelay \/ RunFinal
    \/ Signal

SpecService == Init /\ [][NextService]_vars

\* the worker is inside check_subreddits
InFeeds == pc \in {"fetch", "next", "except"} \/ Handling

\* C35: an exception raised while a subreddit is fetched or one of its posts
\* is processed is contained to that subreddit: the identifiers added to
\* processed_posts before it are kept, the worker goes on with the subreddit
\* that follows in config['subreddits'], no subreddit is passed over, and
\* check_subreddits returns only after the last one.
C35_ExceptionContained ==
    [][/\ (pc # "except" /\ pc' = "except") =>
              (sub' = sub /\ processed_posts \subseteq processed_posts')
       /\ (pc = "except" /\ pc' \notin {"except", "stopped"}) =>
              (pc' = "fetch" /\ sub' = sub + 1 /\ processed_posts' = processed_posts)
       /\ (InFeeds /\ InFeeds') => sub' \in {sub, sub + 1}
       /\ (InFeeds /\ pc' \in {"retry", "wait"}) => sub > NumSubs]_vars

\* an exception is caught with identifiers in processed_posts and a
\* subreddit still to come
C35_CaughtBeforeLastSubreddit ==
    pc = "except" /\ sub < NumSubs /\ processed_posts # {}

\* C36: restart_count stays within 0..max_restarts; it changes only by one,
\* in the step that finds the bot stopped while the service is still running,
\* and every such step counts; with the counter at max_restarts the service
\* starts no cycle and no bot but ends; a service stopped by the signal does
\* not count; and cycles cannot go on failing for ever without the service
\* having ended.
C36_RestartsBounded ==
    /\ [](restart_count \in 0..max_restarts)
    /\ [](restart_count = max_restarts => pc \in {"run_final", "stopped"})
    /\ [][pc # "stopped" =>
            /\ restart_count' \in {restart_count, restart_count + 1}
            /\ restart_count' # restart_count <=>
                  (pc = "run_stopped" /\ running /\ pc' # "run_stopped")
            /\ ~running => restart_count' = restart_count]_vars
    /\ ([]<><<CycleFails>>_vars) => []<>(pc = "stopped")

\* the service has ended on the tenth unexpected stop, with its bot
C36_EndedAtMaxRestarts ==
    pc = "stopped" /\ entry = "service" /\ restart_count = max_restarts /\ bot

\* C37: after every post of a cycle, fewer than five identifiers of
\* processed_posts are missing from processed_posts.json, whether the
\* identifier was added by the skip of a text-only post or after a delivery.
C37_CheckpointWithinFive ==
    output.fn = "check_posts" =>
        \A k \in DOMAIN output.after :
            Cardinality(output.after[k].memory \ output.after[k].file) < CheckpointEvery

====
